---- MODULE Spec2Model ----
(***************************************************************************)
(* A model of the stable B-tree map of src/src/btreemap.rs.                *)
(*                                                                         *)
(* The memory is a sequence of allocator chunks; an Address is the index   *)
(* of a chunk.  A chunk has the allocator's link field and the bytes the   *)
(* node codec writes, kept apart: the engine's tests reload the map after  *)
(* a save that follows a deallocation (remove_case_2a_and_2c) and still    *)
(* find the allocator's bookkeeping intact.                                *)
(*                                                                         *)
(* Keys and values are small integers; the order of the integers stands    *)
(* for the lexicographic order of the serialized keys.  Indices are        *)
(* 0-based, as in the source.                                              *)
(***************************************************************************)
EXTENDS Integers, Sequences, FiniteSets, TLC

VARIABLES mem, alloc, hdr, root_addr, length, model, panic, phase, shrinks

vars == <<mem, alloc, hdr, root_addr, length, model, panic, phase, shrinks>>

---------------------------------------------------------------------------
(* Bounds of the model.                                                    *)

\* Minimum degree of the tree.  The source uses 6 (CAPACITY 11); the model
\* scales it down so that trees of height 3 are reached with few keys.
B == 2
\* Keys are 1..MaxKey, values are 1..MaxVal.
MaxKey == 6
MaxVal == 2

\* Runs that only insert and then only remove use the keys 1..MaxDeepKey and
\* one value: they reach the trees whose inner nodes have entries to spare.
MaxDeepKey == 11
\* A deep run removes at most MaxShrink keys; the runs that range queries
\* are checked on remove at most MaxRangeShrink.
MaxShrink == 2
MaxRangeShrink == 1

Keys == 1..MaxKey
Vals == 1..MaxVal
DeepKeys == 1..MaxDeepKey
AllKeys == Keys \cup DeepKeys

---------------------------------------------------------------------------
(* Program constants.                                                      *)

CAPACITY == 2 * B - 1
MIN_ENTRIES == B - 1
NULL == -1
\* b"BTR"
MAGIC == <<66, 84, 82>>
LAYOUT_VERSION == 1
PACKED_HEADER_SIZE == 28
\* max_size::<K>() and max_size::<V>() of the key and value types in use
\* (Blob<10> in the tests).
max_size_K == 10
max_size_V == 10

\* Option<V>
None == <<>>
Some(v) == <<v>>

---------------------------------------------------------------------------
(* 0-based sequence helpers (Vec::insert, Vec::remove, indexing).          *)

At(seq, i) == seq[i + 1]
InsertAt(seq, i, x) == SubSeq(seq, 1, i) \o <<x>> \o SubSeq(seq, i + 1, Len(seq))
RemoveAt(seq, i) == SubSeq(seq, 1, i) \o SubSeq(seq, i + 2, Len(seq))
ReplaceAt(seq, i, x) == [seq EXCEPT ![i + 1] = x]

---------------------------------------------------------------------------
(* Node: a loaded node, and its operations.                                *)

NewNode(address, node_type) ==
    [address |-> address, node_type |-> node_type, entries |-> <<>>, children |-> <<>>]

\* The content of a chunk no node was ever saved to.
Blank == [node_type |-> "Blank", entries |-> <<>>, children |-> <<>>]

entries_len(node) == Len(node.entries)
children_len(node) == Len(node.children)
key(node, i) == At(node.entries, i)[1]
value(node, i) == At(node.entries, i)[2]
child(node, i) == At(node.children, i)
is_full(node) == entries_len(node) = CAPACITY
at_minimum(node) == entries_len(node) = MIN_ENTRIES
can_remove_entry_without_merging(node) == entries_len(node) > MIN_ENTRIES

\* Binary search on the keys of the node: Ok(idx) or Err(idx).
RECURSIVE bsearch(_, _, _, _)
bsearch(node, k, lo, hi) ==
    IF lo >= hi THEN [found |-> FALSE, idx |-> lo]
    ELSE LET mid == (lo + hi) \div 2
         IN  IF key(node, mid) = k THEN [found |-> TRUE, idx |-> mid]
             ELSE IF key(node, mid) < k THEN bsearch(node, k, mid + 1, hi)
             ELSE bsearch(node, k, lo, mid)

search(node, k) == bsearch(node, k, 0, entries_len(node))

insert_entry(node, i, e) == [node EXCEPT !.entries = InsertAt(@, i, e)]
insert_child(node, i, a) == [node EXCEPT !.children = InsertAt(@, i, a)]
push_entry(node, e) == [node EXCEPT !.entries = Append(@, e)]
push_child(node, a) == [node EXCEPT !.children = Append(@, a)]
remove_entry(node, i) == [node EXCEPT !.entries = RemoveAt(@, i)]
remove_child(node, i) == [node EXCEPT !.children = RemoveAt(@, i)]
swap_entry(node, i, e) == [node EXCEPT !.entries = ReplaceAt(@, i, e)]
pop_entry(node) == [node EXCEPT !.entries = SubSeq(@, 1, Len(@) - 1)]
pop_child(node) == [node EXCEPT !.children = SubSeq(@, 1, Len(@) - 1)]

\* Node::split: the entries after the median, and the children after it,
\* move to the sibling; the median leaves the node.
split_median(node) == At(node.entries, CAPACITY \div 2)
split_left(node) ==
    [node EXCEPT
        !.entries = SubSeq(@, 1, CAPACITY \div 2),
        !.children = IF node.node_type = "Internal"
                     THEN SubSeq(@, 1, CAPACITY \div 2 + 1) ELSE @]
split_right(node, sibling) ==
    [sibling EXCEPT
        !.entries = SubSeq(node.entries, CAPACITY \div 2 + 2, Len(node.entries)),
        !.children = IF node.node_type = "Internal"
                     THEN SubSeq(node.children, CAPACITY \div 2 + 2, Len(node.children))
                     ELSE <<>>]

\* Node::merge: `into` absorbs `source` and the median, in key order.
node_merge(into, source, median) ==
    IF key(source, 0) < key(into, 0)
    THEN [into EXCEPT !.entries = source.entries \o <<median>> \o into.entries,
                      !.children = source.children \o into.children]
    ELSE [into EXCEPT !.entries = into.entries \o <<median>> \o source.entries,
                      !.children = into.children \o source.children]

---------------------------------------------------------------------------
(* The state a call works on: the memory, the allocator and the map's own  *)
(* fields.                                                                 *)

St == [mem |-> mem, alloc |-> alloc, hdr |-> hdr,
       root_addr |-> root_addr, length |-> length,
       max_key_size |-> max_size_K, max_value_size |-> max_size_V,
       header_writes |-> <<>>, unwritten |-> {}, alloc_log |-> <<>>,
       freed |-> {}, stale_saves |-> {}]

\* Node::load
load_node(s, address) ==
    [address |-> address,
     node_type |-> s.mem[address].node.node_type,
     entries |-> s.mem[address].node.entries,
     children |-> s.mem[address].node.children]

\* Node::save: writes the node to the chunk at its address.
node_save(s, node) ==
    [s EXCEPT !.mem[node.address].node =
                  [node_type |-> node.node_type, entries |-> node.entries,
                   children |-> node.children],
              !.unwritten = @ \ {node.address},
              !.stale_saves = @ \cup ({node.address} \cap s.freed)]

\* A faulty save that writes no header: C8 fails on it.
save_nothing(s) == s

\* u32::to_le_bytes / u64::to_le_bytes: the w low bytes of n, lowest first.
RECURSIVE to_le_bytes(_, _)
to_le_bytes(n, w) ==
    IF w = 0 THEN <<>> ELSE <<n % 256>> \o to_le_bytes(n \div 256, w - 1)

\* u32::from_le_bytes / u64::from_le_bytes
RECURSIVE from_le_bytes(_)
from_le_bytes(bytes) ==
    IF bytes = <<>> THEN 0 ELSE bytes[1] + 256 * from_le_bytes(Tail(bytes))

\* Address::get and Address::from: NULL is u64::MAX.
address_get(a) == IF a = NULL THEN [i \in 1..8 |-> 255] ELSE to_le_bytes(a, 8)
address_from(bytes) ==
    IF bytes = [i \in 1..8 |-> 255] THEN NULL ELSE from_le_bytes(bytes)

\* A faulty write_header that stores the length highest byte first: C22
\* fails on it.
write_header_length_big_endian(s, header) ==
    LET le == to_le_bytes(header.length, 8)
    IN  [s EXCEPT !.hdr = header.magic \o <<header.version>>
                          \o to_le_bytes(header.max_key_size, 4)
                          \o to_le_bytes(header.max_value_size, 4)
                          \o address_get(header.root_addr)
                          \o [i \in 1..8 |-> le[9 - i]]
                          \o SubSeq(@, PACKED_HEADER_SIZE + 1, Len(@))]

\* BTreeMap::write_header: the packed header, written at offset 0 over the
\* first PACKED_HEADER_SIZE bytes; the bytes after them stay.
write_header(s, header) ==
    [s EXCEPT !.hdr = header.magic \o <<header.version>>
                      \o to_le_bytes(header.max_key_size, 4)
                      \o to_le_bytes(header.max_value_size, 4)
                      \o address_get(header.root_addr)
                      \o to_le_bytes(header.length, 8)
                      \o SubSeq(@, PACKED_HEADER_SIZE + 1, Len(@))]

\* The addresses of the nodes reachable from the node at `a`.
RECURSIVE SubtreeNodes(_, _)
SubtreeNodes(s, a) ==
    LET node == load_node(s, a)
    IN  {a} \cup UNION {SubtreeNodes(s, node.children[i]) : i \in 1..Len(node.children)}

Nodes(s) == IF s.root_addr = NULL THEN {} ELSE SubtreeNodes(s, s.root_addr)

RECURSIVE SumEntries(_, _)
SumEntries(s, as) ==
    IF as = {} THEN 0
    ELSE LET a == CHOOSE x \in as : TRUE
         IN  entries_len(load_node(s, a)) + SumEntries(s, as \ {a})

\* The number of entries stored across all nodes.
TotalEntries(s) == SumEntries(s, Nodes(s))

\* What the memory holds is the map the fields describe: every node
\* reachable from the root has been written, and the nodes hold `length`
\* entries.
NodesPersisted(s) ==
    /\ Nodes(s) \cap s.unwritten = {}
    /\ TotalEntries(s) = s.length

\* BTreeMap::save writes the header from the map's fields. header_writes
\* keeps, for every write of the header in the call, what the memory and the
\* fields were at that write, and which allocated nodes were yet to be saved.
save(s) ==
    write_header([s EXCEPT !.header_writes =
                      Append(@, [mem |-> s.mem, root_addr |-> s.root_addr,
                                 length |-> s.length,
                                 unwritten |-> s.unwritten])], [magic |-> MAGIC, version |-> LAYOUT_VERSION,
                     max_key_size |-> s.max_key_size,
                     max_value_size |-> s.max_value_size,
                     root_addr |-> s.root_addr, length |-> s.length])

\* The call of the allocator is put on record, with the state it found:
\* `alloc_log` is the list of the allocator calls of the operation under
\* way, `freed` the chunks it has deallocated and not allocated again
\* (`stale_saves` are those of them a node was saved to since), and
\* `alloc.peak` the largest number of chunks allocated at a time since the
\* allocator was made.  None of them is read by the program.
Logged(s, op, address) ==
    [s EXCEPT !.alloc_log =
        Append(@, [op |-> op, address |-> address,
                   before |-> [mem |-> s.mem, root_addr |-> s.root_addr,
                               alloc |-> s.alloc, unwritten |-> s.unwritten]]),
              !.freed = IF op = "deallocate" THEN @ \cup {address}
                        ELSE @ \ {address}]

Counted(s) ==
    [s EXCEPT !.alloc.peak = IF s.alloc.num_allocated_chunks > @
                             THEN s.alloc.num_allocated_chunks ELSE @]

\* Allocator::allocate: pops the free-list, or carves a new chunk at the bump
\* cursor, growing the memory when the chunk lies beyond its end.
allocate(s) ==
    IF s.alloc.free_list_head # NULL
    THEN LET a == s.alloc.free_list_head
         IN  [address |-> a,
              s |-> Counted([Logged(s, "allocate", a) EXCEPT
                              !.alloc.free_list_head = s.mem[a].next,
                              !.alloc.num_allocated_chunks = @ + 1,
                              !.mem[a].next = NULL])]
    ELSE LET a == s.alloc.bump_cursor + 1
             fresh == [next |-> NULL, node |-> Blank]
         IN  [address |-> a,
              s |-> Counted([Logged(s, "allocate", a) EXCEPT
                              !.mem = IF a > Len(@) THEN Append(@, fresh)
                                      ELSE [@ EXCEPT ![a] = fresh],
                              !.alloc.bump_cursor = a,
                              !.alloc.num_allocated_chunks = @ + 1])]

\* A deallocate that gives the memory back when the freed chunk is the last
\* one carved.
deallocate_shrinks_memory(s, address) ==
    IF address = Len(s.mem) /\ address = s.alloc.bump_cursor
    THEN [Logged(s, "deallocate", address) EXCEPT
                   !.mem = SubSeq(@, 1, address - 1),
                   !.alloc.bump_cursor = address - 1,
                   !.alloc.num_allocated_chunks = @ - 1]
    ELSE [Logged(s, "deallocate", address) EXCEPT
                   !.mem[address] = [next |-> s.alloc.free_list_head, node |-> Blank],
                   !.alloc.free_list_head = address,
                   !.alloc.num_allocated_chunks = @ - 1]

\* Allocator::deallocate: links the chunk at the head of the free-list.
deallocate(s, address) ==
    [Logged(s, "deallocate", address) EXCEPT
        !.mem[address] = [next |-> s.alloc.free_list_head, node |-> Blank],
        !.alloc.free_list_head = address,
        !.alloc.num_allocated_chunks = @ - 1]

\* A faulty allocate_node that carves a new chunk whatever the free-list
\* holds: C31 fails on it.
allocate_node_carves_first(s, node_type) ==
    LET a == allocate([s EXCEPT !.alloc.free_list_head = NULL])
    IN  [s |-> [a.s EXCEPT !.unwritten = @ \cup {a.address},
                           !.alloc.free_list_head = s.alloc.free_list_head],
         node |-> NewNode(a.address, node_type)]

\* BTreeMap::allocate_node: Node::new over a newly allocated chunk writes
\* nothing, so the node is among the unwritten ones until it is saved.
allocate_node(s, node_type) ==
    LET a == allocate(s)
    IN  [s |-> [a.s EXCEPT !.unwritten = @ \cup {a.address}],
         node |-> NewNode(a.address, node_type)]

\* Node::get_min / Node::get_max
RECURSIVE get_min(_, _)
get_min(s, node) ==
    IF node.node_type = "Leaf" THEN At(node.entries, 0)
    ELSE get_min(s, load_node(s, child(node, 0)))

RECURSIVE get_max(_, _)
get_max(s, node) ==
    IF node.node_type = "Leaf" THEN At(node.entries, entries_len(node) - 1)
    ELSE get_max(s, load_node(s, child(node, children_len(node) - 1)))

\* The result of a call (or of a helper): the state it leaves, the value it
\* returns and the assertion that failed, if one did.
Ret(s, ret) == [s |-> s, ret |-> ret, err |-> ""]
Fail(s, msg) == [s |-> s, ret |-> None, err |-> msg]

---------------------------------------------------------------------------
(* insert                                                                  *)

\* A faulty split that leaves the median in the child as well: C24 fails on
\* it.
split_child_keeps_median(s, node, full_child_idx) ==
    IF is_full(node) THEN [s |-> s, node |-> node, err |-> "split_child: node is full"]
    ELSE
    LET full_child == load_node(s, child(node, full_child_idx))
    IN  IF ~is_full(full_child)
        THEN [s |-> s, node |-> node, err |-> "split_child: child is not full"]
        ELSE
        LET a == allocate_node(s, full_child.node_type)
            node1 == insert_child(node, full_child_idx + 1, a.node.address)
            median == split_median(full_child)
            sibling == split_right(full_child, a.node)
            left == [split_left(full_child) EXCEPT
                         !.entries = SubSeq(full_child.entries, 1, CAPACITY \div 2 + 1)]
            node2 == insert_entry(node1, full_child_idx, median)
            s1 == node_save(a.s, sibling)
            s2 == node_save(s1, left)
            s3 == node_save(s2, node2)
        IN  [s |-> s3, node |-> node2, err |-> ""]

\* BTreeMap::split_child
split_child(s, node, full_child_idx) ==
    IF is_full(node) THEN [s |-> s, node |-> node, err |-> "split_child: node is full"]
    ELSE
    LET full_child == load_node(s, child(node, full_child_idx))
    IN  IF ~is_full(full_child)
        THEN [s |-> s, node |-> node, err |-> "split_child: child is not full"]
        ELSE
        LET a == allocate_node(s, full_child.node_type)
            node1 == insert_child(node, full_child_idx + 1, a.node.address)
            median == split_median(full_child)
            sibling == split_right(full_child, a.node)
            left == split_left(full_child)
            node2 == insert_entry(node1, full_child_idx, median)
            s1 == node_save(a.s, sibling)
            s2 == node_save(s1, left)
            s3 == node_save(s2, node2)
        IN  [s |-> s3, node |-> node2, err |-> ""]

\* A faulty overwrite that returns the previous value but leaves it stored:
\* C2 fails on it.
overwrite_keeps_value(s, node, idx, k, v) ==
    Ret(node_save(s, node), Some(value(node, idx)))

\* The key is in the node at idx: overwrite it and return the previous value.
overwrite(s, node, idx, k, v) ==
    LET previous_value == value(node, idx)
        node1 == swap_entry(node, idx, <<k, v>>)
    IN  Ret(node_save(s, node1), Some(previous_value))

\* A faulty leaf insertion that returns the inserted value as the previous
\* one: C3 fails on it.
insert_leaf_returns_new(s, node, idx, k, v) ==
    LET node1 == insert_entry(node, idx, <<k, v>>)
        s1 == node_save(s, node1)
        s2 == [s1 EXCEPT !.length = @ + 1]
    IN  Ret(save(s2), Some(v))

\* The node is a non-full leaf without the key: insert the entry at idx.
insert_leaf(s, node, idx, k, v) ==
    LET node1 == insert_entry(node, idx, <<k, v>>)
        s1 == node_save(s, node1)
        s2 == [s1 EXCEPT !.length = @ + 1]
    IN  Ret(save(s2), None)

RECURSIVE insert_nonfull(_, _, _, _)

\* A faulty descent that splits a full child before it looks for the key in
\* it: C18 fails on it.
insert_nonfull_splits_first(s, node, k, v) ==
    IF is_full(node) THEN Fail(s, "insert_nonfull: node is full")
    ELSE
    LET sr == search(node, k)
        idx == sr.idx
    IN  IF sr.found THEN overwrite(s, node, idx, k, v)
        ELSE IF node.node_type = "Leaf" THEN insert_leaf(s, node, idx, k, v)
        ELSE
        LET child0 == load_node(s, child(node, idx))
        IN  IF is_full(child0)
            THEN LET sp == split_child(s, node, idx)
                     sr2 == search(sp.node, k)
                 IN  IF sp.err # "" THEN Fail(sp.s, sp.err)
                     ELSE IF sr2.found THEN overwrite(sp.s, sp.node, sr2.idx, k, v)
                     ELSE insert_nonfull(sp.s, load_node(sp.s, child(sp.node, sr2.idx)),
                                         k, v)
            ELSE insert_nonfull(s, child0, k, v)

\* BTreeMap::insert_nonfull
insert_nonfull(s, node, k, v) ==
    IF is_full(node) THEN Fail(s, "insert_nonfull: node is full")
    ELSE
    LET sr == search(node, k)
        idx == sr.idx
    IN  IF sr.found THEN overwrite(s, node, idx, k, v)
        ELSE IF node.node_type = "Leaf" THEN insert_leaf(s, node, idx, k, v)
        ELSE
        LET child0 == load_node(s, child(node, idx))
        IN  IF is_full(child0)
            THEN LET sc == search(child0, k)
                 IN  IF sc.found THEN overwrite(s, child0, sc.idx, k, v)
                     ELSE
                     LET sp == split_child(s, node, idx)
                     IN  IF sp.err # "" THEN Fail(sp.s, sp.err)
                         ELSE
                         LET idx2 == search(sp.node, k).idx
                             child2 == load_node(sp.s, child(sp.node, idx2))
                         IN  IF is_full(child2)
                             THEN Fail(sp.s, "insert_nonfull: child is full")
                             ELSE insert_nonfull(sp.s, child2, k, v)
            ELSE insert_nonfull(s, child0, k, v)

\* A key and a value whose to_bytes is longer than the bound their type
\* declares (the Storable of the tests panics_if_key_is_too_large and
\* panics_if_value_is_too_large); neither is a key or a value of the runs.
LongKey == 0
LongValue == 0

\* The serialized sizes of keys and values: every other key and value of the
\* model is one byte long.
key_bytes_len(k) == IF k = LongKey THEN max_size_K + 1 ELSE 1
value_bytes_len(v) == IF v = LongValue THEN max_size_V + 1 ELSE 1

\* A faulty first insert that allocates a chunk it never uses: C25 fails on
\* it.
insert_first_root_allocates_twice(s) ==
    LET a == allocate_node(allocate_node(s, "Leaf").s, "Leaf")
    IN  [s |-> save([a.s EXCEPT !.root_addr = a.node.address]),
         node |-> a.node, err |-> ""]

\* No root present: allocate one.
insert_first_root(s) ==
    LET a == allocate_node(s, "Leaf")
    IN  [s |-> save([a.s EXCEPT !.root_addr = a.node.address]),
         node |-> a.node, err |-> ""]

\* The root is full: a new internal root takes the old root as its only
\* child, and the old root is split.
new_root_over(s) ==
    LET a == allocate_node(s, "Internal")
        new_root == push_child(a.node, s.root_addr)
    IN  [s |-> save([a.s EXCEPT !.root_addr = new_root.address]), node |-> new_root]

insert_new_root(s) == split_child(new_root_over(s).s, new_root_over(s).node, 0)

\* A faulty insert that creates the missing root before it looks at the
\* sizes of the key and the value: C15 fails on it.
insert_checks_sizes_late(s, k, v) ==
    LET f == IF s.root_addr = NULL
             THEN insert_first_root(s)
             ELSE [s |-> s, node |-> load_node(s, s.root_addr), err |-> ""]
    IN  IF key_bytes_len(k) > f.s.max_key_size THEN Fail(f.s, "Key is too large")
        ELSE IF value_bytes_len(v) > f.s.max_value_size
        THEN Fail(f.s, "Value is too large")
        ELSE IF s.root_addr = NULL THEN insert_nonfull(f.s, f.node, k, v)
        ELSE
        LET root == f.node
            sr == search(root, k)
        IN  IF sr.found THEN overwrite(s, root, sr.idx, k, v)
            ELSE IF is_full(root)
            THEN LET sp == insert_new_root(s)
                 IN  IF sp.err # "" THEN Fail(sp.s, sp.err)
                     ELSE insert_nonfull(sp.s, sp.node, k, v)
            ELSE insert_nonfull(s, root, k, v)

\* The node below `node` that holds k, or a node without address.
RECURSIVE holder_below(_, _, _)
holder_below(s, node, k) ==
    LET sr == search(node, k)
    IN  IF sr.found THEN node
        ELSE IF node.node_type = "Leaf" THEN NewNode(NULL, "Leaf")
        ELSE holder_below(s, load_node(s, child(node, sr.idx)), k)

\* An insert that looks for the key in the whole tree first and overwrites
\* it where it is, without a new root: the code does not do this, and C35
\* fails on it.
insert_overwrites_in_place(s, k, v) ==
    IF key_bytes_len(k) > s.max_key_size THEN Fail(s, "Key is too large")
    ELSE IF value_bytes_len(v) > s.max_value_size THEN Fail(s, "Value is too large")
    ELSE IF s.root_addr = NULL
    THEN LET f == insert_first_root(s)
         IN  insert_nonfull(f.s, f.node, k, v)
    ELSE
    LET root == load_node(s, s.root_addr)
        h == holder_below(s, root, k)
    IN  IF h.address # NULL THEN overwrite(s, h, search(h, k).idx, k, v)
        ELSE IF is_full(root)
        THEN LET sp == insert_new_root(s)
             IN  IF sp.err # "" THEN Fail(sp.s, sp.err)
                 ELSE insert_nonfull(sp.s, sp.node, k, v)
        ELSE insert_nonfull(s, root, k, v)

\* A faulty insert that hands a full root to insert_nonfull as it is: C30
\* fails on it.
insert_keeps_full_root(s, k, v) ==
    IF key_bytes_len(k) > s.max_key_size THEN Fail(s, "Key is too large")
    ELSE IF value_bytes_len(v) > s.max_value_size THEN Fail(s, "Value is too large")
    ELSE IF s.root_addr = NULL
    THEN LET f == insert_first_root(s)
         IN  insert_nonfull(f.s, f.node, k, v)
    ELSE
    LET root == load_node(s, s.root_addr)
        sr == search(root, k)
    IN  IF sr.found THEN overwrite(s, root, sr.idx, k, v)
        ELSE insert_nonfull(s, root, k, v)

\* BTreeMap::insert
insert(s, k, v) ==
    IF key_bytes_len(k) > s.max_key_size THEN Fail(s, "Key is too large")
    ELSE IF value_bytes_len(v) > s.max_value_size THEN Fail(s, "Value is too large")
    ELSE IF s.root_addr = NULL
    THEN LET f == insert_first_root(s)
         IN  insert_nonfull(f.s, f.node, k, v)
    ELSE
    LET root == load_node(s, s.root_addr)
        sr == search(root, k)
    IN  IF sr.found THEN overwrite(s, root, sr.idx, k, v)
        ELSE IF is_full(root)
        THEN LET sp == insert_new_root(s)
             IN  IF sp.err # "" THEN Fail(sp.s, sp.err)
                 ELSE insert_nonfull(sp.s, sp.node, k, v)
        ELSE insert_nonfull(s, root, k, v)

---------------------------------------------------------------------------
(* remove                                                                  *)

\* A faulty merge that keeps the chunk of `source` allocated: C9 fails on it.
merge_leaks_source(s, source, into, median) ==
    LET into1 == node_merge(into, source, median)
    IN  [s |-> node_save(s, into1), node |-> into1]

\* A faulty merge whose deallocation gives memory back: C23 fails on it.
merge_shrinks_memory(s, source, into, median) ==
    LET into1 == node_merge(into, source, median)
        s1 == node_save(s, into1)
    IN  [s |-> deallocate_shrinks_memory(s1, source.address), node |-> into1]

\* BTreeMap::merge: merges `source` into `into` with the median, saves
\* `into` and deallocates the chunk of `source`.
merge(s, source, into, median) ==
    LET into1 == node_merge(into, source, median)
        s1 == node_save(s, into1)
    IN  [s |-> deallocate(s1, source.address), node |-> into1]

RECURSIVE remove_helper(_, _, _)

\* A faulty case 1 that leaves the length as it was: C5 fails on it.
remove_leaf_keeps_length(s, node, k) ==
    LET sr == search(node, k)
    IN  IF ~sr.found THEN Ret(s, None)
        ELSE
        LET val == value(node, sr.idx)
            node1 == remove_entry(node, sr.idx)
        IN  IF entries_len(node1) = 0
            THEN IF node1.address # s.root_addr
                 THEN Fail(s, "remove_helper: empty leaf is not the root")
                 ELSE Ret(save([deallocate(s, node1.address)
                                    EXCEPT !.root_addr = NULL]), Some(val))
            ELSE Ret(save(node_save(s, node1)), Some(val))

\* A faulty case 1 that keeps the emptied root leaf as the root: C13 fails
\* on it.
remove_leaf_keeps_root(s, node, k) ==
    LET sr == search(node, k)
    IN  IF ~sr.found THEN Ret(s, None)
        ELSE
        LET val == value(node, sr.idx)
            node1 == remove_entry(node, sr.idx)
            s1 == [s EXCEPT !.length = @ - 1]
        IN  IF entries_len(node1) = 0 /\ node1.address # s1.root_addr
            THEN Fail(s1, "remove_helper: empty leaf is not the root")
            ELSE Ret(save(node_save(s1, node1)), Some(val))

\* A faulty case 1 that writes the header before it writes the leaf: C19
\* fails on it.
remove_leaf_saves_header_first(s, node, k) ==
    LET sr == search(node, k)
    IN  IF ~sr.found THEN Ret(s, None)
        ELSE
        LET val == value(node, sr.idx)
            node1 == remove_entry(node, sr.idx)
            s1 == [s EXCEPT !.length = @ - 1]
        IN  IF entries_len(node1) = 0
            THEN IF node1.address # s1.root_addr
                 THEN Fail(s1, "remove_helper: empty leaf is not the root")
                 ELSE Ret(save([deallocate(s1, node1.address)
                                    EXCEPT !.root_addr = NULL]), Some(val))
            ELSE Ret(node_save(save(s1), node1), Some(val))

\* A faulty case 1 that counts a removal, in the length and the header, when
\* the leaf does not hold the key: C36 fails on it.
remove_leaf_counts_absent(s, node, k) ==
    LET sr == search(node, k)
    IN  IF ~sr.found THEN Ret(save([s EXCEPT !.length = @ - 1]), None)
        ELSE
        LET val == value(node, sr.idx)
            node1 == remove_entry(node, sr.idx)
            s1 == [s EXCEPT !.length = @ - 1]
        IN  IF entries_len(node1) = 0
            THEN IF node1.address # s1.root_addr
                 THEN Fail(s1, "remove_helper: empty leaf is not the root")
                 ELSE Ret(save([deallocate(s1, node1.address)
                                    EXCEPT !.root_addr = NULL]), Some(val))
            ELSE Ret(save(node_save(s1, node1)), Some(val))

\* Case 1: the node is a leaf.
remove_leaf(s, node, k) ==
    LET sr == search(node, k)
    IN  IF ~sr.found THEN Ret(s, None)
        ELSE
        LET val == value(node, sr.idx)
            node1 == remove_entry(node, sr.idx)
            s1 == [s EXCEPT !.length = @ - 1]
        IN  IF entries_len(node1) = 0
            THEN IF node1.address # s1.root_addr
                 THEN Fail(s1, "remove_helper: empty leaf is not the root")
                 ELSE Ret(save([deallocate(s1, node1.address)
                                    EXCEPT !.root_addr = NULL]), Some(val))
            ELSE Ret(save(node_save(s1, node1)), Some(val))

\* A faulty case 2.a that returns the value of the predecessor: C4 fails on
\* it.
remove_case_2a_returns_predecessor(s, node, idx, left_child) ==
    LET predecessor == get_max(s, left_child)
        r == remove_helper(s, left_child, predecessor[1])
    IN  IF r.err # "" \/ r.ret = None THEN r
        ELSE Ret(node_save(r.s, swap_entry(node, idx, predecessor)),
                 Some(predecessor[2]))

\* Case 2.a: the left child can lose an entry: the predecessor of the key is
\* removed from the left subtree and takes the place of the key.
remove_case_2a(s, node, idx, left_child) ==
    LET predecessor == get_max(s, left_child)
        r == remove_helper(s, left_child, predecessor[1])
    IN  IF r.err # "" \/ r.ret = None THEN r
        ELSE LET old_value == value(node, idx)
                 node1 == swap_entry(node, idx, predecessor)
             IN  Ret(node_save(r.s, node1), Some(old_value))

\* A faulty case 2.b that removes the successor and keeps the key: C1 fails
\* on it.
remove_case_2b_keeps_key(s, node, idx, right_child) ==
    LET successor == get_min(s, right_child)
        r == remove_helper(s, right_child, successor[1])
    IN  IF r.err # "" \/ r.ret = None THEN r
        ELSE Ret(r.s, Some(value(node, idx)))

\* Case 2.b: the right child can lose an entry: the successor of the key is
\* removed from the right subtree and takes the place of the key.
remove_case_2b(s, node, idx, right_child) ==
    LET successor == get_min(s, right_child)
        r == remove_helper(s, right_child, successor[1])
    IN  IF r.err # "" \/ r.ret = None THEN r
        ELSE LET old_value == value(node, idx)
                 node1 == swap_entry(node, idx, successor)
             IN  Ret(node_save(r.s, node1), Some(old_value))

\* A faulty case 2.c that leaves the address of the merged-away right child
\* in the parent: C12 fails on it.
remove_case_2c_keeps_child(s, node, k, idx, left_child, right_child) ==
    LET median == At(node.entries, idx)
        m == merge(s, right_child, left_child, median)
        new_child == m.node
        node1 == remove_entry(node, idx)
    IN  remove_helper(node_save(node_save(m.s, node1), new_child), new_child, k)

\* Case 2.c: both children are at their minimum: they are merged around the
\* key, and the key is removed from the merged node.
remove_case_2c(s, node, k, idx, left_child, right_child) ==
    IF ~at_minimum(left_child) THEN Fail(s, "case 2.c: left child not at minimum")
    ELSE IF ~at_minimum(right_child)
    THEN Fail(s, "case 2.c: right child not at minimum")
    ELSE
    LET median == At(node.entries, idx)
        m == merge(s, right_child, left_child, median)
        new_child == m.node
        node1 == remove_child(remove_entry(node, idx), idx + 1)
    IN  IF entries_len(node1) = 0
        THEN IF node1.address # m.s.root_addr
                \/ child(node1, 0) # new_child.address
                \/ children_len(node1) # 1
             THEN Fail(m.s, "case 2.c: empty node is not the root")
             ELSE
             LET s1 == [m.s EXCEPT !.root_addr = new_child.address]
                 s2 == save(deallocate(s1, node1.address))
                 s3 == node_save(node_save(s2, node1), new_child)
             IN  remove_helper(s3, new_child, k)
        ELSE remove_helper(node_save(node_save(m.s, node1), new_child),
                           new_child, k)

\* A faulty case 2 that tries the right child before the left one: C27
\* fails on it.
remove_case_2_prefers_right(s, node, k, idx) ==
    LET left_child == load_node(s, child(node, idx))
        right_child == load_node(s, child(node, idx + 1))
    IN  IF can_remove_entry_without_merging(right_child)
        THEN remove_case_2b(s, node, idx, right_child)
        ELSE IF can_remove_entry_without_merging(left_child)
        THEN remove_case_2a(s, node, idx, left_child)
        ELSE remove_case_2c(s, node, k, idx, left_child, right_child)

\* Case 2: the node is internal and holds the key at idx.
remove_case_2(s, node, k, idx) ==
    LET left_child == load_node(s, child(node, idx))
        right_child == load_node(s, child(node, idx + 1))
    IN  IF can_remove_entry_without_merging(left_child)
        THEN remove_case_2a(s, node, idx, left_child)
        ELSE IF can_remove_entry_without_merging(right_child)
        THEN remove_case_2b(s, node, idx, right_child)
        ELSE remove_case_2c(s, node, k, idx, left_child, right_child)

\* Case 3.a (left): the left sibling can lose an entry: its last entry moves
\* up into the parent and the parent's entry moves down into the child.
rotate_from_left(s, node, idx, child0, left_sibling) ==
    LET left_entry == At(left_sibling.entries, entries_len(left_sibling) - 1)
        left1 == pop_entry(left_sibling)
        parent_entry == At(node.entries, idx - 1)
        node1 == swap_entry(node, idx - 1, left_entry)
        child1 == insert_entry(child0, 0, parent_entry)
        has_last_child == children_len(left1) > 0
        left2 == IF has_last_child THEN pop_child(left1) ELSE left1
        child2 == IF has_last_child
                  THEN insert_child(child1, 0, At(left1.children, children_len(left1) - 1))
                  ELSE child1
        types_ok == IF has_last_child
                    THEN left2.node_type = "Internal" /\ child2.node_type = "Internal"
                    ELSE left2.node_type = "Leaf" /\ child2.node_type = "Leaf"
    IN  IF ~types_ok
        THEN [s |-> s, node |-> child0, err |-> "case 3.a left: node types differ"]
        ELSE [s |-> node_save(node_save(node_save(s, left2), child2), node1),
              node |-> child2, err |-> ""]

\* Case 3.a (left), then the descent into the child.
remove_case_3a_left(s, node, k, idx, child0, left_sibling) ==
    LET r == rotate_from_left(s, node, idx, child0, left_sibling)
    IN  IF r.err # "" THEN Fail(r.s, r.err) ELSE remove_helper(r.s, r.node, k)

\* A faulty case 3.a (right) that moves the sibling's first entry into the
\* child and leaves the parent's entry where it is: C11 fails on it.
remove_case_3a_right_keeps_separator(s, node, k, idx, child0, right_sibling) ==
    LET right_entry == At(right_sibling.entries, 0)
        right1 == remove_entry(right_sibling, 0)
        child1 == push_entry(child0, right_entry)
        internal == right1.node_type = "Internal"
        right2 == IF internal THEN remove_child(right1, 0) ELSE right1
        child2 == IF internal THEN push_child(child1, At(right1.children, 0))
                  ELSE child1
    IN  remove_helper(node_save(node_save(node_save(s, right2), child2), node),
                      child2, k)

\* A faulty case 3.a (right) that saves the sibling and the child and leaves
\* the parent, with its new entry, unsaved: C34 fails on it.
rotate_from_right_parent_unsaved(s, node, idx, child0, right_sibling) ==
    LET right_entry == At(right_sibling.entries, 0)
        right1 == remove_entry(right_sibling, 0)
        parent_entry == At(node.entries, idx)
        child1 == push_entry(child0, parent_entry)
        internal == right1.node_type = "Internal"
        right2 == IF internal THEN remove_child(right1, 0) ELSE right1
        child2 == IF internal THEN push_child(child1, At(right1.children, 0))
                  ELSE child1
    IN  [s |-> node_save(node_save(s, right2), child2), node |-> child2, err |-> ""]

\* Case 3.a (right): the right sibling can lose an entry: its first entry
\* moves up into the parent and the parent's entry moves down into the child.
rotate_from_right(s, node, idx, child0, right_sibling) ==
    LET right_entry == At(right_sibling.entries, 0)
        right1 == remove_entry(right_sibling, 0)
        parent_entry == At(node.entries, idx)
        node1 == swap_entry(node, idx, right_entry)
        child1 == push_entry(child0, parent_entry)
        internal == right1.node_type = "Internal"
        right2 == IF internal THEN remove_child(right1, 0) ELSE right1
        child2 == IF internal THEN push_child(child1, At(right1.children, 0))
                  ELSE child1
        types_ok == IF internal THEN child0.node_type = "Internal"
                    ELSE child0.node_type = "Leaf"
    IN  IF ~types_ok
        THEN [s |-> s, node |-> child0, err |-> "case 3.a right: node types differ"]
        ELSE [s |-> node_save(node_save(node_save(s, right2), child2), node1),
              node |-> child2, err |-> ""]

\* Case 3.a (right), then the descent into the child.
remove_case_3a_right(s, node, k, idx, child0, right_sibling) ==
    LET r == rotate_from_right(s, node, idx, child0, right_sibling)
    IN  IF r.err # "" THEN Fail(r.s, r.err) ELSE remove_helper(r.s, r.node, k)

\* A faulty case 3.b that promotes the merged node to root without giving the
\* chunk of the old root back: C14 fails on it.
remove_case_3b_leaks_root(s, node, k, idx, child0, into, entry_idx) ==
    IF ~at_minimum(into) THEN Fail(s, "case 3.b: sibling not at minimum")
    ELSE
    LET m == merge(s, child0, into, At(node.entries, entry_idx))
        node1 == remove_child(remove_entry(node, entry_idx), idx)
        s1 == IF entries_len(node1) = 0
              THEN IF node1.address = m.s.root_addr
                   THEN save([m.s EXCEPT !.root_addr = m.node.address])
                   ELSE m.s
              ELSE node_save(m.s, node1)
    IN  remove_helper(s1, m.node, k)

\* A faulty case 3.b that leaves a parent without entries in its place, over
\* the merged node: C32 fails on it.
merge_with_sibling_keeps_empty_root(s, node, idx, child0, into, entry_idx) ==
    IF ~at_minimum(into)
    THEN [s |-> s, node |-> child0, err |-> "case 3.b: sibling not at minimum"]
    ELSE
    LET m == merge(s, child0, into, At(node.entries, entry_idx))
        node1 == remove_child(remove_entry(node, entry_idx), idx)
    IN  [s |-> node_save(m.s, node1), node |-> m.node, err |-> ""]

\* A faulty case 3.b that makes the merged node the root in memory only,
\* without writing the header: C29 fails on it.
merge_with_sibling_skips_header(s, node, idx, child0, into, entry_idx) ==
    IF ~at_minimum(into)
    THEN [s |-> s, node |-> child0, err |-> "case 3.b: sibling not at minimum"]
    ELSE
    LET m == merge(s, child0, into, At(node.entries, entry_idx))
        node1 == remove_child(remove_entry(node, entry_idx), idx)
        s1 == IF entries_len(node1) = 0
              THEN LET d == deallocate(m.s, node1.address)
                   IN  IF node1.address = d.root_addr
                       THEN [d EXCEPT !.root_addr = m.node.address]
                       ELSE d
              ELSE node_save(m.s, node1)
    IN  [s |-> s1, node |-> m.node, err |-> ""]

\* Case 3.b: the child is merged into the sibling `into`, whose separating
\* entry in the parent is at entry_idx; the child leaves the parent, and a
\* parent left empty is deallocated and, being the root, replaced by the
\* merged node.
merge_with_sibling(s, node, idx, child0, into, entry_idx) ==
    IF ~at_minimum(into)
    THEN [s |-> s, node |-> child0, err |-> "case 3.b: sibling not at minimum"]
    ELSE
    LET m == merge(s, child0, into, At(node.entries, entry_idx))
        node1 == remove_child(remove_entry(node, entry_idx), idx)
        s1 == IF entries_len(node1) = 0
              THEN LET d == deallocate(m.s, node1.address)
                   IN  IF node1.address = d.root_addr
                       THEN save([d EXCEPT !.root_addr = m.node.address])
                       ELSE d
              ELSE node_save(m.s, node1)
    IN  [s |-> s1, node |-> m.node, err |-> ""]

\* Case 3.b, then the descent into the merged node.
remove_case_3b(s, node, k, idx, child0, into, entry_idx) ==
    LET r == merge_with_sibling(s, node, idx, child0, into, entry_idx)
    IN  IF r.err # "" THEN Fail(r.s, r.err) ELSE remove_helper(r.s, r.node, k)

\* A faulty case 3 that takes an entry from the left sibling whether or not
\* the sibling can lose one: C10 fails on it.
remove_case_3_robs_left(s, node, k, idx) ==
    LET child0 == load_node(s, child(node, idx))
    IN  IF can_remove_entry_without_merging(child0)
        THEN remove_helper(s, child0, k)
        ELSE IF idx > 0
        THEN remove_case_3a_left(s, node, k, idx, child0,
                                 load_node(s, child(node, idx - 1)))
        ELSE remove_case_3a_right(s, node, k, idx, child0,
                                  load_node(s, child(node, idx + 1)))

\* A faulty case 3 that descends into the child as it is, without a
\* rotation or a merge: C26 fails on it.
remove_case_3_descends_at_once(s, node, k, idx) ==
    remove_helper(s, load_node(s, child(node, idx)), k)

\* A faulty case 3 that asks the right sibling for an entry before the left
\* one: C28 fails on it.
remove_case_3_prefers_right(s, node, k, idx) ==
    LET child0 == load_node(s, child(node, idx))
        has_left == idx > 0
        has_right == idx + 1 < children_len(node)
    IN  IF can_remove_entry_without_merging(child0)
        THEN remove_helper(s, child0, k)
        ELSE IF has_right
                /\ can_remove_entry_without_merging(load_node(s, child(node, idx + 1)))
        THEN remove_case_3a_right(s, node, k, idx, child0,
                                  load_node(s, child(node, idx + 1)))
        ELSE IF has_left
                /\ can_remove_entry_without_merging(load_node(s, child(node, idx - 1)))
        THEN remove_case_3a_left(s, node, k, idx, child0,
                                 load_node(s, child(node, idx - 1)))
        ELSE IF has_left
        THEN remove_case_3b(s, node, k, idx, child0,
                            load_node(s, child(node, idx - 1)), idx - 1)
        ELSE IF has_right
        THEN remove_case_3b(s, node, k, idx, child0,
                            load_node(s, child(node, idx + 1)), idx)
        ELSE Fail(s, "At least one of the siblings must exist.")

\* Case 3: the node is internal and does not hold the key; the key, if
\* present, is in the subtree of child idx.
remove_case_3(s, node, k, idx) ==
    LET child0 == load_node(s, child(node, idx))
        has_left == idx > 0
        has_right == idx + 1 < children_len(node)
    IN  IF can_remove_entry_without_merging(child0)
        THEN remove_helper(s, child0, k)
        ELSE IF has_left
                /\ can_remove_entry_without_merging(load_node(s, child(node, idx - 1)))
        THEN remove_case_3a_left(s, node, k, idx, child0,
                                 load_node(s, child(node, idx - 1)))
        ELSE IF has_right
                /\ can_remove_entry_without_merging(load_node(s, child(node, idx + 1)))
        THEN remove_case_3a_right(s, node, k, idx, child0,
                                  load_node(s, child(node, idx + 1)))
        ELSE IF has_left
        THEN remove_case_3b(s, node, k, idx, child0,
                            load_node(s, child(node, idx - 1)), idx - 1)
        ELSE IF has_right
        THEN remove_case_3b(s, node, k, idx, child0,
                            load_node(s, child(node, idx + 1)), idx)
        ELSE Fail(s, "At least one of the siblings must exist.")

remove_helper(s, node, k) ==
    IF node.address # s.root_addr /\ ~can_remove_entry_without_merging(node)
    THEN Fail(s, "remove_helper: node cannot lose an entry without merging")
    ELSE IF node.node_type = "Leaf" THEN remove_leaf(s, node, k)
    ELSE LET sr == search(node, k)
         IN  IF sr.found THEN remove_case_2(s, node, k, sr.idx)
             ELSE remove_case_3(s, node, k, sr.idx)

remove(s, k) ==
    IF s.root_addr = NULL THEN Ret(s, None)
    ELSE remove_helper(s, load_node(s, s.root_addr), k)

---------------------------------------------------------------------------
(* get                                                                     *)

RECURSIVE get_helper(_, _, _)
get_helper(s, node_addr, k) ==
    LET node == load_node(s, node_addr)
        sr == search(node, k)
    IN  IF sr.found THEN Some(value(node, sr.idx))
        ELSE IF node.node_type = "Leaf" THEN None
        ELSE get_helper(s, child(node, sr.idx), k)

get(s, k) == IF s.root_addr = NULL THEN None ELSE get_helper(s, s.root_addr, k)

len(s) == s.length

is_empty(s) == s.length = 0

\* A faulty first_key_value that takes the first entry of the root: C21
\* fails on it.
first_key_value_of_root(s) ==
    IF s.root_addr = NULL THEN None
    ELSE Some(At(load_node(s, s.root_addr).entries, 0))

\* BTreeMap::first_key_value
first_key_value(s) ==
    IF s.root_addr = NULL THEN None
    ELSE Some(get_min(s, load_node(s, s.root_addr)))

\* BTreeMap::last_key_value
last_key_value(s) ==
    IF s.root_addr = NULL THEN None
    ELSE Some(get_max(s, load_node(s, s.root_addr)))

---------------------------------------------------------------------------
(* Iteration: a stack of cursors, the last element being the top.          *)

CursorAddress(a) == [kind |-> "Address", address |-> a, node |-> Blank, next |-> 0]
CursorNode(node, i) == [kind |-> "Node", address |-> node.address, node |-> node, next |-> i]

Unbounded == <<"Unbounded">>
Included(k) == <<"Included", k>>
Excluded(k) == <<"Excluded", k>>

start_ok(range, k) ==
    CASE range[1][1] = "Unbounded" -> TRUE
      [] range[1][1] = "Included" -> range[1][2] <= k
      [] range[1][1] = "Excluded" -> range[1][2] < k

end_ok(range, k) ==
    CASE range[2][1] = "Unbounded" -> TRUE
      [] range[2][1] = "Included" -> k <= range[2][2]
      [] range[2][1] = "Excluded" -> k < range[2][2]

\* RangeBounds::contains
contains(range, k) == start_ok(range, k) /\ end_ok(range, k)

\* Iter::next, repeated until the iterator is exhausted: the entries it
\* yields, in the order it yields them.
RECURSIVE iter_collect(_, _, _, _)
iter_collect(s, cursors, range, acc) ==
    IF cursors = <<>> THEN acc
    ELSE
    LET top == cursors[Len(cursors)]
        rest == SubSeq(cursors, 1, Len(cursors) - 1)
    IN  IF top.kind = "Address"
        THEN IF top.address = NULL THEN iter_collect(s, rest, range, acc)
             ELSE
             LET node == load_node(s, top.address)
                 c1 == Append(rest, CursorNode(node, 0))
                 c2 == IF node.node_type = "Internal"
                       THEN Append(c1, CursorAddress(child(node, 0)))
                       ELSE c1
             IN  iter_collect(s, c2, range, acc)
        ELSE IF top.next >= entries_len(top.node)
        THEN iter_collect(s, rest, range, acc)
        ELSE
        LET e == At(top.node.entries, top.next)
            c1 == Append(rest, CursorNode(top.node, top.next + 1))
            c2 == IF top.node.node_type = "Internal"
                  THEN Append(c1, CursorAddress(child(top.node, top.next + 1)))
                  ELSE c1
        IN  IF ~end_ok(range, e[1]) THEN acc
            ELSE iter_collect(s, c2, range, Append(acc, e))

\* BTreeMap::iter, drained.
iter(s) == iter_collect(s, <<CursorAddress(s.root_addr)>>, <<Unbounded, Unbounded>>, <<>>)

\* BTreeMap::range: the cursors the iterator starts from when the start bound
\* names a key, found by walking down from `node`.
RECURSIVE range_cursors(_, _, _, _)
range_cursors(s, node, range, cursors) ==
    LET sr == search(node, range[1][2])
        idx == sr.idx
    IN  IF sr.found
        THEN IF range[1][1] = "Included"
             THEN Append(cursors, CursorNode(node, idx))
             ELSE LET c1 == IF idx + 1 # entries_len(node)
                               /\ contains(range, key(node, idx + 1))
                            THEN Append(cursors, CursorNode(node, idx + 1))
                            ELSE cursors
                  IN  IF node.node_type = "Internal"
                      THEN Append(c1, CursorAddress(child(node, idx + 1)))
                      ELSE c1
        ELSE LET c1 == IF idx < entries_len(node) /\ contains(range, key(node, idx))
                       THEN Append(cursors, CursorNode(node, idx))
                       ELSE cursors
             IN  IF node.node_type = "Leaf" THEN c1
                 ELSE range_cursors(s, load_node(s, child(node, idx)), range, c1)

\* A faulty range that starts at an excluded start key: C6 fails on it.
range_includes_start(s, key_range) ==
    IF s.root_addr = NULL THEN <<>>
    ELSE IF key_range[1][1] = "Unbounded"
    THEN iter_collect(s, <<CursorAddress(s.root_addr)>>, key_range, <<>>)
    ELSE LET from == <<Included(key_range[1][2]), key_range[2]>>
         IN  iter_collect(s, range_cursors(s, load_node(s, s.root_addr), from, <<>>),
                          from, <<>>)

\* BTreeMap::range, drained.
range(s, key_range) ==
    IF s.root_addr = NULL THEN <<>>
    ELSE IF key_range[1][1] = "Unbounded"
    THEN iter_collect(s, <<CursorAddress(s.root_addr)>>, key_range, <<>>)
    ELSE iter_collect(s, range_cursors(s, load_node(s, s.root_addr), key_range, <<>>),
                      key_range, <<>>)

\* iter_upper_bound, at a leaf whose keys are all >= bound: the cursor stack is
\* unwound to the last cursor that is not at its first entry, which is moved
\* one entry back.
RECURSIVE unwind(_)
unwind(cursors) ==
    IF cursors = <<>> THEN [cursors |-> <<>>, err |-> ""]
    ELSE LET top == cursors[Len(cursors)]
             rest == SubSeq(cursors, 1, Len(cursors) - 1)
         IN  IF top.kind # "Node"
             THEN [cursors |-> rest, err |-> "BUG: unexpected cursor shape"]
             ELSE IF top.next = 0 THEN unwind(rest)
             ELSE [cursors |-> Append(rest, CursorNode(top.node, top.next - 1)),
                   err |-> ""]

\* A faulty descent that pushes no cursor for the internal nodes it goes
\* through, so that the iterator ends with the leaf: C38 fails on it.
RECURSIVE upper_bound_cursors_leaf_only(_, _, _, _)
upper_bound_cursors_leaf_only(s, node, bound, cursors) ==
    LET idx == search(node, bound).idx
    IN  IF node.node_type = "Leaf"
        THEN IF idx = 0 THEN unwind(cursors)
             ELSE [cursors |-> Append(cursors, CursorNode(node, idx - 1)), err |-> ""]
        ELSE upper_bound_cursors_leaf_only(s, load_node(s, child(node, idx)), bound,
                                           cursors)

RECURSIVE upper_bound_cursors(_, _, _, _)
upper_bound_cursors(s, node, bound, cursors) ==
    LET idx == search(node, bound).idx
    IN  IF node.node_type = "Leaf"
        THEN IF idx = 0 THEN unwind(cursors)
             ELSE [cursors |-> Append(cursors, CursorNode(node, idx - 1)), err |-> ""]
        ELSE upper_bound_cursors(s, load_node(s, child(node, idx)), bound,
                                 Append(cursors, CursorNode(node, idx)))

\* A faulty iter_upper_bound that also accepts the bound itself: C7 fails on
\* it.
iter_upper_bound_inclusive(s, bound) ==
    IF s.root_addr = NULL THEN [items |-> <<>>, err |-> ""]
    ELSE LET c == upper_bound_cursors(s, load_node(s, s.root_addr), bound + 1, <<>>)
         IN  [items |-> iter_collect(s, c.cursors, <<Unbounded, Unbounded>>, <<>>),
              err |-> c.err]

\* BTreeMap::iter_upper_bound, drained.
iter_upper_bound(s, bound) ==
    IF s.root_addr = NULL THEN [items |-> <<>>, err |-> ""]
    ELSE LET c == upper_bound_cursors(s, load_node(s, s.root_addr), bound, <<>>)
         IN  [items |-> iter_collect(s, c.cursors, <<Unbounded, Unbounded>>, <<>>),
              err |-> c.err]

\* Iterator::next on a fresh iterator.
first(items) == IF items = <<>> THEN None ELSE Some(items[1])

---------------------------------------------------------------------------
(* The operations that take &self, as calls: the state they leave and what *)
(* they return.  They load nodes and read values; none of them saves a     *)
(* node or the header, or calls the allocator.                             *)

\* BTreeMap::contains_key
contains_key(s, k) == get(s, k) # None

\* A faulty get that writes the header back after it has read the tree: C37
\* fails on it.
call_get_saves_header(s, k) == Ret(save(s), get(s, k))

call_get(s, k) == Ret(s, get(s, k))
call_contains_key(s, k) == Ret(s, contains_key(s, k))
call_len(s) == Ret(s, len(s))
call_is_empty(s) == Ret(s, is_empty(s))
call_first_key_value(s) == Ret(s, first_key_value(s))
call_last_key_value(s) == Ret(s, last_key_value(s))
\* iter, range and iter_upper_bound with the iterator they return drained.
call_iter(s) == Ret(s, iter(s))
call_range(s, key_range) == Ret(s, range(s, key_range))
call_iter_upper_bound(s, bound) ==
    [s |-> s, ret |-> iter_upper_bound(s, bound).items,
     err |-> iter_upper_bound(s, bound).err]

---------------------------------------------------------------------------
(* Open: BTreeMap::load over the memory the map was dropped from.          *)

read_header(s) ==
    LET buf == SubSeq(s.hdr, 1, PACKED_HEADER_SIZE)
    IN  [magic |-> SubSeq(buf, 1, 3),
         version |-> buf[4],
         max_key_size |-> from_le_bytes(SubSeq(buf, 5, 8)),
         max_value_size |-> from_le_bytes(SubSeq(buf, 9, 12)),
         root_addr |-> address_from(SubSeq(buf, 13, 20)),
         length |-> from_le_bytes(SubSeq(buf, 21, 28))]

\* A faulty load that also turns away a map whose declared key size equals
\* the persisted one: C16 fails on it.
load_KV_rejects_equal(s, K_max_size, V_max_size) ==
    LET header == read_header(s)
    IN  IF header.magic # MAGIC THEN Fail(s, "Bad magic.")
        ELSE IF header.version # LAYOUT_VERSION THEN Fail(s, "Unsupported version.")
        ELSE IF K_max_size >= header.max_key_size
        THEN Fail(s, "max_key_size must be <= expected_key_size")
        ELSE IF V_max_size > header.max_value_size
        THEN Fail(s, "max_value_size must be <= expected_value_size")
        ELSE Ret([s EXCEPT !.root_addr = header.root_addr,
                           !.max_key_size = header.max_key_size,
                           !.max_value_size = header.max_value_size,
                           !.length = header.length], None)

\* BTreeMap::<K, V, M>::load, for key and value types that declare the
\* sizes K_max_size and V_max_size.
load_KV(s, K_max_size, V_max_size) ==
    LET header == read_header(s)
    IN  IF header.magic # MAGIC THEN Fail(s, "Bad magic.")
        ELSE IF header.version # LAYOUT_VERSION THEN Fail(s, "Unsupported version.")
        ELSE IF K_max_size > header.max_key_size
        THEN Fail(s, "max_key_size must be <= expected_key_size")
        ELSE IF V_max_size > header.max_value_size
        THEN Fail(s, "max_value_size must be <= expected_value_size")
        ELSE Ret([s EXCEPT !.root_addr = header.root_addr,
                           !.max_key_size = header.max_key_size,
                           !.max_value_size = header.max_value_size,
                           !.length = header.length], None)

\* BTreeMap::load for the key and value types of the runs.
load(s) == load_KV(s, max_size_K, max_size_V)

\* BTreeMap::<K, V, M>::new: a fresh header and a fresh allocator over the
\* memory.
new_KV(s, K_max_size, V_max_size) ==
    Ret(save([s EXCEPT !.root_addr = NULL, !.length = 0,
                       !.max_key_size = K_max_size,
                       !.max_value_size = V_max_size,
                       !.alloc = [free_list_head |-> NULL, bump_cursor |-> 0,
                                  num_allocated_chunks |-> 0, peak |-> 0]]), None)

\* BTreeMap::new for the key and value types of the runs.
new(s) == new_KV(s, max_size_K, max_size_V)

\* A faulty clear that forgets the entries but keeps the allocator as it
\* was: C20 fails on it.
clear_keeps_allocator(s) == Ret(save([s EXCEPT !.root_addr = NULL, !.length = 0]), None)

\* BTreeMap::clear: a new map over the memory of the old one.
clear(s) == new(s)

\* Memory::size: the header's page, and the chunks carved after it.
memory_size(s) == (IF s.hdr = <<>> THEN 0 ELSE 1) + Len(s.mem)

\* A faulty init that never looks for an existing map: C17 fails on it.
init_KV_always_new(s, K_max_size, V_max_size) == new_KV(s, K_max_size, V_max_size)

\* BTreeMap::<K, V, M>::init
init_KV(s, K_max_size, V_max_size) ==
    IF memory_size(s) = 0 THEN new_KV(s, K_max_size, V_max_size)
    ELSE IF SubSeq(s.hdr, 1, 3) # MAGIC THEN new_KV(s, K_max_size, V_max_size)
    ELSE load_KV(s, K_max_size, V_max_size)

\* BTreeMap::init for the key and value types of the runs.
init(s) == init_KV(s, max_size_K, max_size_V)

---------------------------------------------------------------------------
(* The reference ordered map.                                              *)

\* The entries of the reference map, in ascending key order.
RECURSIVE RefEntriesFrom(_, _)
RefEntriesFrom(m, k) ==
    IF k \notin AllKeys THEN <<>>
    ELSE (IF m[k] = None THEN <<>> ELSE << <<k, m[k][1]>> >>) \o RefEntriesFrom(m, k + 1)

RefEntries(m) == RefEntriesFrom(m, 1)

Commit(r) ==
    /\ mem' = r.s.mem
    /\ alloc' = r.s.alloc
    /\ hdr' = r.s.hdr
    /\ root_addr' = r.s.root_addr
    /\ length' = r.s.length
    /\ panic' = r.err

---------------------------------------------------------------------------
(* The specification.                                                      *)

Present(m) == {k \in AllKeys : m[k] # None}

\* BTreeMap::new over an empty memory.
Init ==
    /\ mem = <<>>
    /\ alloc = [free_list_head |-> NULL, bump_cursor |-> 0, num_allocated_chunks |-> 0,
             peak |-> 0]
    /\ hdr = MAGIC \o <<LAYOUT_VERSION>> \o to_le_bytes(max_size_K, 4)
                \o to_le_bytes(max_size_V, 4) \o address_get(NULL) \o to_le_bytes(0, 8)
    /\ root_addr = NULL
    /\ length = 0
    /\ model = [k \in AllKeys |-> None]
    /\ panic = ""
    /\ phase \in {"mixed", "grow"}
    /\ shrinks = 0

Insert(k, v) ==
    /\ panic = ""
    /\ Commit(insert(St, k, v))
    /\ model' = [model EXCEPT ![k] = Some(v)]
    /\ UNCHANGED <<phase, shrinks>>

\* In the shrinking part of a deep run the removals are counted.
Remove(k) ==
    /\ panic = ""
    /\ Commit(remove(St, k))
    /\ model' = [model EXCEPT ![k] = None]
    /\ shrinks' = IF phase = "shrink" THEN shrinks + 1 ELSE shrinks
    /\ UNCHANGED phase

Load ==
    /\ panic = ""
    /\ Commit(load(St))
    /\ UNCHANGED <<model, phase, shrinks>>

\* The map is dropped and opened again with BTreeMap::init.
Open ==
    /\ panic = ""
    /\ Commit(init(St))
    /\ UNCHANGED <<model, phase, shrinks>>

\* BTreeMap::clear; the calls that follow it are those the claims apply to
\* the cleared map.
Clear ==
    /\ panic = ""
    /\ phase # "cleared"
    /\ Commit(clear(St))
    /\ model' = [k \in AllKeys |-> None]
    /\ phase' = "cleared"
    /\ UNCHANGED shrinks

\* A run that has only inserted so far starts to remove.
StartShrink ==
    /\ phase = "grow"
    /\ phase' = "shrink"
    /\ UNCHANGED <<mem, alloc, hdr, root_addr, length, model, panic, shrinks>>

\* A deep run grows a contiguous interval of keys, one end at a time.
Adjacent(k) ==
    \/ Present(model) = {}
    \/ k \notin Present(model) /\ (k + 1 \in Present(model) \/ k - 1 \in Present(model))

Next ==
    \/ \E k \in Keys, v \in Vals : phase = "mixed" /\ Insert(k, v)
    \/ \E k \in Keys : phase = "mixed" /\ Remove(k)
    \/ \E k \in DeepKeys : phase = "grow" /\ Adjacent(k) /\ Insert(k, 1)
    \/ \E k \in DeepKeys : phase = "shrink" /\ shrinks < MaxShrink /\ Remove(k)
    \/ StartShrink
    \/ Clear
    \/ Load
    \/ Open

Spec == Init /\ [][Next]_vars

\* The runs that range queries are checked on: one value, since a range query
\* is decided by the keys, and shorter deep runs.
NextKeys ==
    \/ \E k \in Keys : phase = "mixed" /\ Insert(k, 1)
    \/ \E k \in Keys : phase = "mixed" /\ Remove(k)
    \/ \E k \in DeepKeys : phase = "grow" /\ Adjacent(k) /\ Insert(k, 1)
    \/ \E k \in DeepKeys : phase = "shrink" /\ shrinks < MaxRangeShrink /\ Remove(k)
    \/ StartShrink
    \/ Clear
    \/ Load
    \/ Open

SpecKeys == Init /\ [][NextKeys]_vars

\* The runs the header codec is checked on: write_header called on a memory
\* with a header of any sampled field values, as the test
\* read_write_header_is_identical_to_read_write_struct calls it. The memory
\* is either empty or holds bytes up to the allocator's offset.
ALLOCATOR_OFFSET == 52

\* The u32 and u64 fields are sampled up to 2^31 - 1, the largest integer
\* the checker holds.
HeaderSamples ==
    [magic : {MAGIC, <<0, 0, 0>>},
     version : {LAYOUT_VERSION, 255},
     max_key_size : {0, max_size_K, 305419896, 2147483647},
     max_value_size : {0, 256, 2147483647},
     root_addr : {NULL, 0, 65535, 2147483647},
     length : {0, 1, 16777216, 2147483647}]

InitHeader ==
    /\ mem = <<>>
    /\ alloc = [free_list_head |-> NULL, bump_cursor |-> 0, num_allocated_chunks |-> 0,
             peak |-> 0]
    /\ hdr \in {<<>>, [i \in 1..ALLOCATOR_OFFSET |->
                           IF i > PACKED_HEADER_SIZE THEN i ELSE 0]}
    /\ root_addr = NULL
    /\ length = 0
    /\ model = [k \in AllKeys |-> None]
    /\ panic = ""
    /\ phase = "header"
    /\ shrinks = 0

WriteHeader(header) ==
    /\ hdr' = write_header(St, header).hdr
    /\ UNCHANGED <<mem, alloc, root_addr, length, model, panic, phase, shrinks>>

NextHeader == \E header \in HeaderSamples : WriteHeader(header)

SpecHeader == InitHeader /\ [][NextHeader]_vars

---------------------------------------------------------------------------
(* What the tests observe of the tree.                                     *)


RECURSIVE HeightFrom(_, _)
HeightFrom(s, a) ==
    LET node == load_node(s, a)
    IN  IF node.node_type = "Leaf" THEN 1 ELSE 1 + HeightFrom(s, child(node, 0))

Height(s) == IF s.root_addr = NULL THEN 0 ELSE HeightFrom(s, s.root_addr)

\* The level of the node that holds the key (the root is at level 1), or 0.
RECURSIVE DepthFrom(_, _, _)
DepthFrom(s, a, k) ==
    LET node == load_node(s, a)
        sr == search(node, k)
    IN  IF sr.found THEN 1
        ELSE IF node.node_type = "Leaf" THEN 0
        ELSE LET d == DepthFrom(s, child(node, sr.idx), k)
             IN  IF d = 0 THEN 0 ELSE d + 1

DepthOf(s, k) == IF s.root_addr = NULL THEN 0 ELSE DepthFrom(s, s.root_addr, k)

\* The entries of a sequence whose key is not k.
Without(entries, k) == SelectSeq(entries, LAMBDA e : e[1] # k)

NoPanic == panic = ""

\* The keys a call may name in the current run.
CallKeys == IF phase \in {"mixed", "cleared"} THEN Keys ELSE DeepKeys

---------------------------------------------------------------------------
(* The claims.                                                             *)

\* C1: after any sequence of insert and remove calls on a fresh map, iter()
\* yields exactly the entries of the reference ordered map that received the
\* same calls: every present key once, with its most recent value, in
\* strictly ascending key order.
C1_IterIsReference ==
    LET items == iter(St)
    IN  /\ panic = ""
        /\ items = RefEntries(model)
        /\ \A i \in 1..(Len(items) - 1) : items[i][1] < items[i + 1][1]

\* A tree of height 3 that went through removals and still holds entries at
\* every level.
C1_Witness ==
    /\ Height(St) = 3
    /\ shrinks >= 1
    /\ alloc.free_list_head # NULL
    /\ Len(iter(St)) >= 7
    /\ iter(St) = RefEntries(model)

\* C2: in every reachable state, right after insert(k, v) returns get(k) is
\* Some(v), and right after remove(k) returns get(k) is None.
C2_GetAfterCall ==
    \A k \in CallKeys :
        /\ \A v \in Vals : get(insert(St, k, v).s, k) = Some(v)
        /\ get(remove(St, k).s, k) = None

\* A key held below the root is overwritten with another value and read
\* back; a key held in an inner node is removed and no longer found.
C2_Witness ==
    /\ Height(St) = 3
    /\ \E k \in Keys, v \in Vals :
           /\ DepthOf(St, k) = 3
           /\ get(St, k) \notin {None, Some(v)}
           /\ get(insert(St, k, v).s, k) = Some(v)
    /\ \E k \in Keys :
           /\ DepthOf(St, k) = 2
           /\ get(remove(St, k).s, k) = None

\* C3: insert(k, v) returns Some(old), old being what get(k) returned just
\* before the call, when k was present at any depth, and None when k was
\* absent; in both cases the map maps k to v afterwards.
C3_InsertReturnsPrevious ==
    \A k \in CallKeys, v \in Vals :
        LET r == insert(St, k, v)
        IN  /\ r.err = ""
            /\ r.ret = get(St, k)
            /\ r.ret = model[k]
            /\ get(r.s, k) = Some(v)
            /\ iter(r.s) = RefEntries([model EXCEPT ![k] = Some(v)])

\* A present key is overwritten at each level of a tree of height 3, and an
\* absent key is inserted into it.
C3_Witness ==
    /\ Height(St) = 3
    /\ \A d \in 1..3 : \E k \in Keys :
           /\ DepthOf(St, k) = d
           /\ \E v \in Vals : insert(St, k, v).ret \notin {None, Some(v)}
    /\ \E k \in CallKeys : model[k] = None /\ insert(St, k, 1).ret = None

\* C4: remove(k) returns Some(v), v being the value stored for k just before
\* the call, and removes exactly that entry; it returns None when k is absent,
\* also on an empty map, and never fails fatally.
C4_RemoveReturnsValue ==
    \A k \in CallKeys :
        LET r == remove(St, k)
        IN  /\ r.err = ""
            /\ r.ret = get(St, k)
            /\ r.ret = model[k]
            /\ iter(r.s) = Without(iter(St), k)
            /\ (root_addr = NULL => r.ret = None /\ r.s = St)

\* A key is removed from an inner node of a tree of height 3,
\* and an absent key is not found in it.
C4_Witness ==
    /\ Height(St) = 3
    /\ \E k \in Keys :
           /\ DepthOf(St, k) = 2
           /\ remove(St, k).ret = Some(1)
           /\ Len(iter(remove(St, k).s)) = length - 1
    /\ \E k \in CallKeys : model[k] = None /\ remove(St, k).ret = None

\* C5: after every completed insert or remove, len() is the number of entries
\* stored across all nodes and the number of distinct keys present; an insert
\* of a new key adds one, a remove of a present key takes one, and an
\* overwrite or a remove of an absent key leaves it unchanged.
C5_LenCountsEntries ==
    /\ len(St) = TotalEntries(St)
    /\ len(St) = Cardinality(Present(model))
    /\ \A k \in CallKeys :
           /\ \A v \in Vals :
                  len(insert(St, k, v).s) = len(St) + (IF model[k] = None THEN 1 ELSE 0)
           /\ len(remove(St, k).s) = len(St) - (IF model[k] = None THEN 0 ELSE 1)

\* A key held in the root of a tree of height 3 is removed (by way of a
\* merge or of a replacement by a neighbour) and the length drops by one;
\* removing an absent key and overwriting a key leave the length.
C5_Witness ==
    /\ Height(St) = 3
    /\ \E k \in Keys :
           /\ DepthOf(St, k) = 1
           /\ len(remove(St, k).s) = len(St) - 1
    /\ \E k \in CallKeys : model[k] = None /\ len(remove(St, k).s) = len(St)
    /\ \E k \in Keys : model[k] # None /\ len(insert(St, k, 2).s) = len(St)

\* The keys a range bound may name: they include 0 and a key above every key
\* of the run.
BoundKeys == 0..(IF phase \in {"mixed", "cleared"} THEN MaxKey + 1 ELSE MaxDeepKey + 1)
Bounds == {Unbounded} \cup {Included(k) : k \in BoundKeys} \cup {Excluded(k) : k \in BoundKeys}

\* The key satisfies the start bound lo and the end bound hi.
Satisfies(lo, hi, k) ==
    /\ lo[1] = "Included" => lo[2] <= k
    /\ lo[1] = "Excluded" => lo[2] < k
    /\ hi[1] = "Included" => k <= hi[2]
    /\ hi[1] = "Excluded" => k < hi[2]

\* C6: in every reachable state and for every combination of start bound and
\* end bound (Unbounded, Included, Excluded), range yields exactly the entries
\* of the reference map whose key satisfies both bounds, each once, in
\* ascending key order; the bounds may or may not name keys of the map.
C6_RangeYieldsBoundedEntries ==
    LET ref == RefEntries(model)
    IN  \A lo \in Bounds, hi \in Bounds :
            range(St, <<lo, hi>>) = SelectSeq(ref, LAMBDA e : Satisfies(lo, hi, e[1]))

\* In a tree of height 3: a range that starts after a key held in an inner
\* node and ends at an absent key, a range that starts at an absent key, and
\* a range that starts at a key held in a leaf; each yields some entries but
\* not all.
C6_Witness ==
    /\ Height(St) = 3
    /\ \E lo \in DeepKeys, hi \in DeepKeys :
           /\ DepthOf(St, lo) = 2
           /\ model[hi] = None
           /\ Len(range(St, <<Excluded(lo), Included(hi)>>)) >= 2
    /\ \E lo \in DeepKeys, hi \in DeepKeys :
           /\ model[lo] = None
           /\ model[hi] # None
           /\ Len(range(St, <<Included(lo), Excluded(hi)>>)) >= 2
    /\ \E lo \in DeepKeys :
           /\ DepthOf(St, lo) = 3
           /\ Len(range(St, <<Included(lo), Unbounded>>)) \in 2..(length - 2)

\* The last entry of the reference map whose key is below k, if any.
GreatestBelow(k) ==
    LET lower == SelectSeq(RefEntries(model), LAMBDA e : e[1] < k)
    IN  IF lower = <<>> THEN None ELSE Some(lower[Len(lower)])

\* C7: in every reachable state and for every key k, present or not, the
\* first item of iter_upper_bound(k) is the entry with the greatest key
\* strictly less than k; the iterator is empty when the map is empty or no
\* key is strictly less than k.
C7_UpperBoundFirstItem ==
    \A k \in BoundKeys :
        LET r == iter_upper_bound(St, k)
        IN  /\ r.err = ""
            /\ first(r.items) = GreatestBelow(k)
            /\ (root_addr = NULL \/ GreatestBelow(k) = None) => r.items = <<>>

\* In a tree of height 3: the bound is the first key of a leaf and the entry
\* below it is held in the root; the bound is an absent key and the entry
\* below it is held in a leaf; the bound is the least key and the iterator is
\* empty.
C7_Witness ==
    /\ Height(St) = 3
    /\ \E k \in DeepKeys :
           /\ DepthOf(St, k) = 3
           /\ first(iter_upper_bound(St, k).items) # None
           /\ DepthOf(St, first(iter_upper_bound(St, k).items)[1][1]) = 1
    /\ \E k \in DeepKeys :
           /\ model[k] = None
           /\ first(iter_upper_bound(St, k).items) # None
           /\ DepthOf(St, first(iter_upper_bound(St, k).items)[1][1]) = 3
    /\ \E k \in DeepKeys :
           /\ model[k] # None
           /\ iter_upper_bound(St, k).items = <<>>

\* C8: in every reachable state, a map constructed over the same memory with
\* load or with init opens without failing, has the same len() and the same
\* iter() output, and an insert or a remove on it returns what it returns on
\* the original and leaves the same map and memory.
C8_ReopenKeepsMap ==
    LET o == load(St)
    IN  /\ o.err = ""
        /\ init(St) = o
        /\ len(o.s) = len(St)
        /\ iter(o.s) = iter(St)
        /\ iter(o.s) = RefEntries(model)
        /\ \A k \in CallKeys :
               /\ \A v \in Vals : insert(o.s, k, v) = insert(St, k, v)
               /\ remove(o.s, k) = remove(St, k)

\* A tree of height 3 that went through a removal is opened again with its
\* entries, and a key is then removed from one of its inner nodes.
C8_Witness ==
    /\ Height(St) = 3
    /\ shrinks >= 1
    /\ alloc.free_list_head # NULL
    /\ load(St).err = ""
    /\ Len(iter(load(St).s)) >= 7
    /\ len(init(St).s) = Len(iter(St))
    /\ \E k \in DeepKeys :
           /\ DepthOf(St, k) = 2
           /\ remove(load(St).s, k).ret = Some(1)

Occupied(s, a) ==
    LET n == entries_len(load_node(s, a))
    IN  /\ n <= CAPACITY
        /\ a # s.root_addr => n >= MIN_ENTRIES
        /\ a = s.root_addr => n >= 1

\* C10: in every reachable state, and after one more insert or remove, every
\* node other than the root holds at least MIN_ENTRIES and at most CAPACITY
\* entries, CAPACITY being 2 * MIN_ENTRIES + 1, and the root of a non-empty
\* map holds between 1 and CAPACITY entries.
C10_NodeOccupancy ==
    /\ CAPACITY = 2 * MIN_ENTRIES + 1
    /\ length > 0 => root_addr # NULL
    /\ \A a \in Nodes(St) : Occupied(St, a)
    /\ \A k \in CallKeys :
           /\ LET r == remove(St, k)
              IN  \A a \in Nodes(r.s) : Occupied(r.s, a)
           /\ LET r == insert(St, k, 1)
              IN  \A a \in Nodes(r.s) : Occupied(r.s, a)

\* A tree of height 3, after a removal, with a node other than the root at
\* its minimum and a full node.
C10_Witness ==
    /\ Height(St) = 3
    /\ shrinks >= 1
    /\ \E a \in Nodes(St) : a # root_addr /\ entries_len(load_node(St, a)) = MIN_ENTRIES
    /\ \E a \in Nodes(St) : a # root_addr /\ entries_len(load_node(St, a)) = CAPACITY
    /\ \A a \in Nodes(St) : Occupied(St, a)

\* The keys stored in the subtree of the node at the address.
RECURSIVE SubtreeKeys(_, _)
SubtreeKeys(s, a) ==
    LET node == load_node(s, a)
    IN  {key(node, i) : i \in 0..(entries_len(node) - 1)}
        \cup UNION {SubtreeKeys(s, node.children[i]) : i \in 1..Len(node.children)}

\* The tree of s is a search tree.
SearchTree(s) ==
    \A a \in Nodes(s) :
        LET node == load_node(s, a)
        IN  /\ \A i \in 0..(entries_len(node) - 2) : key(node, i) < key(node, i + 1)
            /\ node.node_type = "Internal" =>
                   \A i \in 0..(entries_len(node) - 1) :
                       /\ \A k \in SubtreeKeys(s, child(node, i)) : k < key(node, i)
                       /\ \A k \in SubtreeKeys(s, child(node, i + 1)) : k > key(node, i)

\* C11: in every reachable state, and after one more insert or remove, the
\* tree is a search tree: the keys of each node are strictly increasing, and
\* for every entry i of an internal node the keys in the subtree of child i
\* are smaller than the entry's key and those in the subtree of child i + 1
\* are larger.
C11_SearchTree ==
    /\ SearchTree(St)
    /\ \A k \in CallKeys :
           /\ SearchTree(insert(St, k, 1).s)
           /\ SearchTree(remove(St, k).s)

\* A tree of height 3 after a removal, with an internal node of two entries
\* below the root, from which a removal rotates an entry through the root.
C11_Witness ==
    /\ Height(St) = 3
    /\ shrinks >= 1
    /\ \E a \in Nodes(St) :
           /\ a # root_addr
           /\ load_node(St, a).node_type = "Internal"
           /\ entries_len(load_node(St, a)) >= 2
    /\ SearchTree(St)
    /\ \E k \in DeepKeys :
           /\ model[k] # None
           /\ key(load_node(remove(St, k).s, remove(St, k).s.root_addr), 0)
                  # key(load_node(St, root_addr), 0)
           /\ Height(remove(St, k).s) = 3
           /\ SearchTree(remove(St, k).s)

\* The node at the address has the children its type and entries call for.
ChildrenMatch(s, a) ==
    LET node == load_node(s, a)
    IN  /\ node.node_type \in {"Leaf", "Internal"}
        /\ node.node_type = "Leaf" => children_len(node) = 0
        /\ node.node_type = "Internal" =>
               /\ children_len(node) = entries_len(node) + 1
               /\ \A i \in 0..(children_len(node) - 1) : child(node, i) # NULL

\* C12: in every reachable state, and after one more insert or remove, every
\* internal node of the tree with n entries has exactly n + 1 child
\* addresses, none of them NULL, and every leaf has no children.
C12_ChildrenMatchEntries ==
    /\ \A a \in Nodes(St) : ChildrenMatch(St, a)
    /\ \A k \in CallKeys :
           /\ LET r == insert(St, k, 1)
              IN  \A a \in Nodes(r.s) : ChildrenMatch(r.s, a)
           /\ LET r == remove(St, k)
              IN  \A a \in Nodes(r.s) : ChildrenMatch(r.s, a)

\* A tree of height 3 with an internal node of three children below the
\* root; a removal takes one of these children away (by a rotation or a
\* merge) and the tree keeps its height.
C12_Witness ==
    /\ Height(St) = 3
    /\ \E a \in Nodes(St), k \in DeepKeys :
           /\ a # root_addr
           /\ children_len(load_node(St, a)) = 3
           /\ ChildrenMatch(St, a)
           /\ model[k] # None
           /\ Height(remove(St, k).s) = 3
           /\ a \in Nodes(remove(St, k).s)
           /\ children_len(load_node(remove(St, k).s, a)) = 2
           /\ \A b \in Nodes(remove(St, k).s) : ChildrenMatch(remove(St, k).s, b)

\* The three ways of saying that the map of s is empty agree.
EmptyAgrees(s) ==
    /\ s.root_addr = NULL <=> TotalEntries(s) = 0
    /\ s.root_addr = NULL <=> len(s) = 0
    /\ is_empty(s) <=> len(s) = 0

\* C13: in every reachable state (each is left by new, init, load, insert,
\* remove or clear) and after one more of these calls, root_addr is NULL if
\* and only if the tree holds no entries, if and only if len() is 0, which is
\* when is_empty() is true.
C13_EmptyAgrees ==
    /\ EmptyAgrees(St)
    /\ EmptyAgrees(new(St).s)
    /\ EmptyAgrees(init(St).s)
    /\ EmptyAgrees(load(St).s)
    /\ EmptyAgrees(clear(St).s)
    /\ \A k \in CallKeys :
           /\ EmptyAgrees(insert(St, k, 1).s)
           /\ EmptyAgrees(remove(St, k).s)

\* A map that shrank to its last entry: removing that entry empties it, and
\* so does clearing it, while an insert keeps it non-empty.
C13_Witness ==
    /\ length = 1
    /\ alloc.free_list_head # NULL
    /\ root_addr # NULL
    /\ \E k \in Keys :
           /\ model[k] # None
           /\ remove(St, k).s.root_addr = NULL
           /\ is_empty(remove(St, k).s)
    /\ clear(St).s.root_addr = NULL
    /\ \E k \in Keys : model[k] = None /\ len(insert(St, k, 1).s) = 2

\* The chunks on the free-list, in list order; the walk is cut after n links.
RECURSIVE FreeChain(_, _, _)
FreeChain(s, a, n) ==
    IF a = NULL \/ n = 0 THEN <<>>
    ELSE <<a>> \o FreeChain(s, s.mem[a].next, n - 1)

FreeList(s) == FreeChain(s, s.alloc.free_list_head, s.alloc.bump_cursor + 1)

RECURSIVE SumChildren(_, _)
SumChildren(s, as) ==
    IF as = {} THEN 0
    ELSE LET a == CHOOSE x \in as : TRUE
         IN  children_len(load_node(s, a)) + SumChildren(s, as \ {a})

\* Every chunk carved so far is owned by the tree or by the free-list, and
\* by one of them only; every node has one parent, the root none.
ChunksOwnedOnce(s) ==
    LET free == FreeList(s)
        freeSet == {free[i] : i \in 1..Len(free)}
        carved == 1..s.alloc.bump_cursor
    IN  /\ Cardinality(freeSet) = Len(free)
        /\ Len(free) <= s.alloc.bump_cursor
        /\ Nodes(s) \cap freeSet = {}
        /\ Nodes(s) \cup freeSet = carved
        /\ s.root_addr # NULL => SumChildren(s, Nodes(s)) = Cardinality(Nodes(s)) - 1

---------------------------------------------------------------------------
(* C15: a fatal failure leaves the store as it was.                        *)

\* The memory of `s` with byte i of the header replaced by b.
WithHeaderByte(s, i, b) == [s EXCEPT !.hdr = [s.hdr EXCEPT ![i] = b]]

\* The memory of `s` as a map of types with the sizes ks and vs would have
\* written it.
WithPersistedSizes(s, ks, vs) ==
    [s EXCEPT !.hdr = SubSeq(s.hdr, 1, 4) \o to_le_bytes(ks, 4) \o to_le_bytes(vs, 4)
                        \o SubSeq(s.hdr, 13, PACKED_HEADER_SIZE)]

\* The sizes a type may declare, around those of the runs.
DeclaredSizes == {max_size_K - 1, max_size_K, max_size_K + 1}

\* The memories a load gives up on: a wrong magic, a version the code does
\* not know, and persisted sizes below the declared ones.
BadMagic(s) == {WithHeaderByte(s, i, MAGIC[i] + 1) : i \in 1..3}
BadVersion(s) == {WithHeaderByte(s, 4, LAYOUT_VERSION + 1)}
SmallerSizes(s) ==
    {WithPersistedSizes(s, ks, vs) : ks \in DeclaredSizes, vs \in DeclaredSizes}
        \ {WithPersistedSizes(s, ks, vs) : ks \in {max_size_K, max_size_K + 1},
                                            vs \in {max_size_V, max_size_V + 1}}

\* C15: an insert of a key longer than max_key_size, or of a value longer
\* than max_value_size, fails and leaves the memory, the allocator, the
\* header, the root and the length as they were; a load that fails on a bad
\* magic, on an unsupported version or on declared sizes above the persisted
\* ones leaves them as they were too.
C15_FailureLeavesStore ==
    /\ \A v \in Vals \cup {LongValue} :
           LET r == insert(St, LongKey, v)
           IN  r.err = "Key is too large" /\ r.s = St
    /\ \A k \in CallKeys :
           LET r == insert(St, k, LongValue)
           IN  r.err = "Value is too large" /\ r.s = St
    /\ \A m \in BadMagic(St) : load(m).err = "Bad magic." /\ load(m).s = m
    /\ \A m \in BadVersion(St) :
           load(m).err = "Unsupported version." /\ load(m).s = m
    /\ \A m \in SmallerSizes(St) : load(m).err # "" /\ load(m).s = m

\* A map of two levels with a free chunk, on which the long key is turned
\* away, and whose memory with a wrong version is turned away by load.
C15_Witness ==
    /\ Height(St) = 2
    /\ St.alloc.free_list_head # NULL
    /\ insert(St, LongKey, 1).err # ""
    /\ insert(St, LongKey, 1).s = St
    /\ \E m \in BadVersion(St) : load(m).err # "" /\ load(m).s = m

---------------------------------------------------------------------------
(* C16: reopening with declared sizes against the persisted ones.          *)

\* C16: over a memory whose header persists the sizes ks and vs, load and
\* init for types declaring dk and dv succeed, and take the root, the length
\* and the sizes from the header, when dk <= ks and dv <= vs; they fail when
\* dk > ks or dv > vs.
C16_ReopenSizes ==
    \A ks \in DeclaredSizes, vs \in DeclaredSizes,
       dk \in DeclaredSizes, dv \in DeclaredSizes :
        \A r \in {load_KV(WithPersistedSizes(St, ks, vs), dk, dv),
                   init_KV(WithPersistedSizes(St, ks, vs), dk, dv)} :
            IF dk <= ks /\ dv <= vs
            THEN r = Ret([St EXCEPT !.hdr = WithPersistedSizes(St, ks, vs).hdr,
                                    !.max_key_size = ks,
                                    !.max_value_size = vs], None)
            ELSE r.err # ""

\* A map of two levels is reopened with equal sizes and with a smaller key
\* size, and is turned away with a larger key size and with a larger value
\* size.
C16_Witness ==
    /\ Height(St) = 2
    /\ load_KV(St, max_size_K, max_size_V).err = ""
    /\ init_KV(St, max_size_K - 1, max_size_V).err = ""
    /\ Len(iter(init_KV(St, max_size_K - 1, max_size_V).s)) >= 3
    /\ init_KV(St, max_size_K + 1, max_size_V).err # ""
    /\ load_KV(St, max_size_K, max_size_V + 1).err # ""

---------------------------------------------------------------------------
(* C17: init creates or loads.                                             *)

\* The memory before anything was written to it.
EmptyMemory == [St EXCEPT !.hdr = <<>>, !.mem = <<>>]

\* The map BTreeMap::new leaves over the memory `m`: no root, no entry, a
\* fresh allocator, and the header that says so.
FreshOver(m) ==
    [m EXCEPT !.root_addr = NULL, !.length = 0,
              !.max_key_size = max_size_K, !.max_value_size = max_size_V,
              !.alloc = [free_list_head |-> NULL, bump_cursor |-> 0,
                         num_allocated_chunks |-> 0, peak |-> 0],
              !.hdr = MAGIC \o <<LAYOUT_VERSION>> \o to_le_bytes(max_size_K, 4)
                        \o to_le_bytes(max_size_V, 4) \o [i \in 1..8 |-> 255]
                        \o [i \in 1..8 |-> 0],
              !.header_writes = <<[mem |-> m.mem, root_addr |-> NULL, length |-> 0,
                                   unwritten |-> {}]>>]

\* C17: init over a memory of size 0, or over a memory whose first three
\* bytes are not BTR, gives a new empty map with a fresh header and
\* allocator; over the memory of a map it loads that map, with every entry
\* that was stored.
C17_InitCreatesOrLoads ==
    /\ memory_size(EmptyMemory) = 0
    /\ \A m \in {EmptyMemory} \cup BadMagic(St) :
           /\ init(m) = Ret(FreshOver(m), None)
           /\ len(init(m).s) = 0
           /\ iter(init(m).s) = <<>>
    /\ memory_size(St) > 0
    /\ init(St).err = ""
    /\ init(St).s = St
    /\ iter(init(St).s) = RefEntries(model)
    /\ len(init(St).s) = Cardinality(Present(model))
    /\ \A k \in CallKeys : get(init(St).s, k) = model[k]

\* The memory of a map of two levels is loaded by init with its entries, and
\* the same memory with a wrong first byte is made a new empty map.
C17_Witness ==
    /\ Height(St) = 2
    /\ Len(iter(init(St).s)) >= 3
    /\ \E m \in BadMagic(St) :
           /\ m.hdr[1] # MAGIC[1]
           /\ init(m).s.root_addr = NULL
           /\ init(m).s.hdr[1] = MAGIC[1]
           /\ iter(init(m).s) = <<>>

---------------------------------------------------------------------------
(* C18: overwriting a key stored in a full node.                           *)

\* The addresses of the nodes insert and get visit on the way to k, from the
\* root to the node that holds k (or to a leaf).
RECURSIVE PathFrom(_, _, _)
PathFrom(s, a, k) ==
    LET node == load_node(s, a)
        sr == search(node, k)
    IN  IF sr.found \/ node.node_type = "Leaf" THEN <<a>>
        ELSE <<a>> \o PathFrom(s, child(node, sr.idx), k)

PathTo(s, k) == IF s.root_addr = NULL THEN <<>> ELSE PathFrom(s, s.root_addr, k)

\* k is stored in a full node of s: the last node of the path to k.
InFullNode(s, k) ==
    /\ PathTo(s, k) # <<>>
    /\ LET node == load_node(s, PathTo(s, k)[Len(PathTo(s, k))])
       IN  search(node, k).found /\ is_full(node)

\* The node that holds k.
Holder(s, k) == load_node(s, PathTo(s, k)[Len(PathTo(s, k))])

\* A node above the holder of k is full.
FullAbove(s, k) ==
    \E i \in 1..(Len(PathTo(s, k)) - 1) : is_full(load_node(s, PathTo(s, k)[i]))

\* The node at the holder's address after insert(k, v): same type, same
\* keys, same children, CAPACITY entries, and v stored with k.
HolderKept(s, k, v, r) ==
    LET old == Holder(s, k)
        now == load_node(r.s, old.address)
    IN  /\ r.err = ""
        /\ r.ret = Some(value(old, search(old, k).idx))
        /\ now.node_type = old.node_type
        /\ now.children = old.children
        /\ entries_len(now) = CAPACITY
        /\ now.entries = [old.entries EXCEPT ![search(old, k).idx + 1] = <<k, v>>]
        /\ r.s.length = s.length

\* No chunk was allocated or freed between s and t.
NoChunkAllocated(s, t) ==
    /\ t.alloc = s.alloc
    /\ Len(t.mem) = Len(s.mem)
    /\ Nodes(t) = Nodes(s)

\* C18 as the spec words it: an insert of a key stored in a full
\* node replaces the value in place, the node keeps its type and its
\* CAPACITY entries, no chunk is allocated and len() is unchanged.
C18_Original ==
    \A k \in CallKeys, v \in Vals :
        InFullNode(St, k) =>
            /\ HolderKept(St, k, v, insert(St, k, v))
            /\ NoChunkAllocated(St, insert(St, k, v).s)

\* C18 (amended): an insert of a key stored in a full node replaces the
\* value in place; the node keeps its type, its keys, its children and its
\* CAPACITY entries, and len() is unchanged. No chunk is allocated, and
\* nothing but that value changes, when no node above the holder is full; a
\* full node above it, which does not hold k, is split on the way down, and
\* that allocates.
C18_OverwriteInFullNode ==
    \A k \in CallKeys, v \in Vals :
        InFullNode(St, k) =>
            LET r == insert(St, k, v)
            IN  /\ HolderKept(St, k, v, r)
                /\ ~FullAbove(St, k) =>
                       /\ NoChunkAllocated(St, r.s)
                       /\ r.s = node_save(St, load_node(r.s, Holder(St, k).address))
                /\ FullAbove(St, k) =>
                       r.s.alloc.num_allocated_chunks > St.alloc.num_allocated_chunks

\* A full child of a root that is not full holds k, and the insert replaces
\* the value in it and leaves it full, with no chunk allocated.
C18_Witness ==
    /\ \E k \in CallKeys :
           /\ InFullNode(St, k) /\ Len(PathTo(St, k)) = 2 /\ ~FullAbove(St, k)
           /\ get(insert(St, k, 2).s, k) = Some(2)
           /\ NoChunkAllocated(St, insert(St, k, 2).s)
           /\ is_full(load_node(insert(St, k, 2).s, Holder(St, k).address))

\* A full leaf under a full root: the overwrite splits the root.
C18_WitnessSplitAbove ==
    \E k \in CallKeys :
        /\ InFullNode(St, k) /\ FullAbove(St, k)
        /\ Height(insert(St, k, 2).s) = Height(St) + 1

---------------------------------------------------------------------------
(* C19: the nodes are written before the header.                           *)

\* At some write of the header in the call that left t, a node the header
\* led to was still to be written, or the nodes did not hold the length the
\* header gave.
HeaderEarly(t) ==
    \E i \in 1..Len(t.header_writes) : ~NodesPersisted(t.header_writes[i])

\* insert(k, v) on s puts a root in place: the map is empty, or its root is
\* full and does not hold k.
PutsRoot(s, k) ==
    \/ s.root_addr = NULL
    \/ /\ is_full(load_node(s, s.root_addr))
       /\ ~search(load_node(s, s.root_addr), k).found

C19_WitnessEarly ==
    /\ Height(St) >= 2
    /\ \E k \in CallKeys : PutsRoot(St, k) /\ HeaderEarly(insert(St, k, 1).s)

---------------------------------------------------------------------------
(* C20: clear.                                                             *)

\* The state after inserting the keys lo..hi, in ascending order, each with
\* the value v.
RECURSIVE InsertRun(_, _, _, _)
InsertRun(s, lo, hi, v) ==
    IF lo > hi THEN s ELSE InsertRun(insert(s, lo, v).s, lo + 1, hi, v)

\* C20: clear() in any reachable state gives a map over the same memory
\* with len() = 0, no root, an empty iter(), get(k) = None for every k and
\* no allocated chunk; an insert into it returns None and is read back, and
\* a run of inserts long enough to split the root leaves exactly those
\* entries, as it does in a fresh map.
C20_ClearEmpties ==
    LET c == clear(St)
    IN  /\ c.err = ""
        /\ c.s.mem = St.mem
        /\ len(c.s) = 0
        /\ is_empty(c.s)
        /\ c.s.root_addr = NULL
        /\ read_header(c.s).root_addr = NULL
        /\ read_header(c.s).length = 0
        /\ iter(c.s) = <<>>
        /\ \A k \in CallKeys : get(c.s, k) = None
        /\ c.s.alloc.num_allocated_chunks = 0
        /\ \A k \in CallKeys, v \in Vals :
               LET r == insert(c.s, k, v)
               IN  /\ r.err = "" /\ r.ret = None
                   /\ get(r.s, k) = Some(v)
                   /\ len(r.s) = 1
                   /\ r.s.alloc.num_allocated_chunks = 1
        /\ \A v \in Vals :
               LET t == InsertRun(c.s, 1, CAPACITY + 1, v)
               IN  /\ iter(t) = [i \in 1..(CAPACITY + 1) |-> <<i, v>>]
                   /\ len(t) = CAPACITY + 1
                   /\ Height(t) = 2
                   /\ ChunksOwnedOnce(t)
                   /\ SearchTree(t)

\* A map of two levels with a free chunk is cleared, and the cleared map
\* takes an insert.
C20_Witness ==
    /\ Height(St) >= 2
    /\ St.alloc.free_list_head # NULL
    /\ len(St) >= 3
    /\ len(clear(St).s) = 0
    /\ clear(St).s.alloc.num_allocated_chunks = 0
    /\ get(insert(clear(St).s, 1, 1).s, 1) = Some(1)

---------------------------------------------------------------------------
(* C21: first_key_value and last_key_value.                                *)

\* C21: in every reachable state first_key_value() is the entry of the
\* smallest present key and last_key_value() the entry of the greatest one,
\* each with the value the reference map holds for it; they are the first and
\* the last item of iter(), and both are None exactly when the map is empty.
C21_FirstAndLast ==
    LET f == first_key_value(St)
        l == last_key_value(St)
        items == iter(St)
    IN  /\ (f = None) <=> (Present(model) = {})
        /\ (l = None) <=> (Present(model) = {})
        /\ (f = None) <=> is_empty(St)
        /\ (l = None) <=> is_empty(St)
        /\ Present(model) # {} =>
               /\ f = Some(items[1])
               /\ l = Some(items[Len(items)])
               /\ f[1][1] \in Present(model)
               /\ \A k \in Present(model) : f[1][1] <= k /\ k <= l[1][1]
               /\ l[1][1] \in Present(model)
               /\ Some(f[1][2]) = model[f[1][1]]
               /\ Some(l[1][2]) = model[l[1][1]]

\* A tree of three levels: the first entry lies in the leftmost leaf and the
\* last in the rightmost, neither in the root.
C21_Witness ==
    /\ Height(St) = 3
    /\ first_key_value(St) # None
    /\ first_key_value(St)[1] # At(load_node(St, root_addr).entries, 0)
    /\ last_key_value(St)[1][1] > first_key_value(St)[1][1] + 7

---------------------------------------------------------------------------
(* C22: the header codec.                                                  *)

\* Byte j (from 0) of the little-endian form of n, for n below 2^31.
LeByte(n, j) == IF j > 3 THEN 0 ELSE (n \div (256 ^ j)) % 256

\* C22: over any memory, write_header puts the magic at bytes 0..3, the
\* version at byte 3, max_key_size at 4..8, max_value_size at 8..12, the root
\* address at 12..20 (NULL as eight bytes 255) and the length at 20..28,
\* lowest byte first, leaves every byte from 28 on and the chunks as they
\* were, and read_header over the result returns the six fields written.
C22_HeaderRoundTrip ==
    \A header \in HeaderSamples :
        LET t == write_header(St, header)
            b == t.hdr
        IN  /\ Len(b) = (IF Len(hdr) > PACKED_HEADER_SIZE THEN Len(hdr)
                          ELSE PACKED_HEADER_SIZE)
            /\ \A i \in 1..3 : b[i] = header.magic[i]
            /\ b[4] = header.version
            /\ \A j \in 0..3 : b[5 + j] = LeByte(header.max_key_size, j)
            /\ \A j \in 0..3 : b[9 + j] = LeByte(header.max_value_size, j)
            /\ \A j \in 0..7 :
                   b[13 + j] = (IF header.root_addr = NULL THEN 255
                                ELSE LeByte(header.root_addr, j))
            /\ \A j \in 0..7 : b[21 + j] = LeByte(header.length, j)
            /\ \A i \in (PACKED_HEADER_SIZE + 1)..Len(b) : b[i] = hdr[i]
            /\ t.mem = mem /\ t.alloc = alloc
            /\ read_header(t) = header

\* A header with the null root and the largest sampled length has been
\* written over a memory that holds bytes after the header, and reads back.
C22_Witness ==
    /\ Len(hdr) = ALLOCATOR_OFFSET
    /\ hdr[ALLOCATOR_OFFSET] = ALLOCATOR_OFFSET
    /\ read_header(St).root_addr = NULL
    /\ read_header(St).length = 2147483647
    /\ read_header(St).max_key_size = 305419896
    /\ hdr[5] = 120 /\ hdr[8] = 18

---------------------------------------------------------------------------
(* C23: the memory never shrinks.                                          *)

\* C23: no step of a run makes the memory smaller: after every operation
\* the memory holds at least the chunks it held before, and its size is at
\* least what it was.
C23_MemoryNeverShrinks ==
    [][/\ Len(mem') >= Len(mem)
       /\ memory_size(St)' >= memory_size(St)]_vars

\* Chunks have been freed: fewer chunks are allocated than the memory holds,
\* the free-list is not empty, and the memory is as large as it ever was.
C23_Witness ==
    /\ alloc.free_list_head # NULL
    /\ Len(FreeList(St)) >= 2
    /\ alloc.num_allocated_chunks + 2 <= Len(mem)
    /\ Len(mem) = alloc.bump_cursor
    /\ memory_size(St) = Len(mem) + 1

---------------------------------------------------------------------------
(* C24: split_child.                                                       *)

\* The pairs (parent, i) split_child may be called on in s: a node of the
\* tree that is not full, and the index of a full child of it.
Splittable(s) ==
    {p \in Nodes(s) \X (0..CAPACITY) :
        LET node == load_node(s, p[1])
        IN  /\ node.node_type = "Internal"
            /\ ~is_full(node)
            /\ p[2] < children_len(node)
            /\ is_full(load_node(s, child(node, p[2])))}

\* What split_child(parent, i) leaves, against what it found.
SplitAsStated(s, parent, i) ==
    LET old == load_node(s, child(parent, i))
        r == split_child(s, parent, i)
        now == load_node(r.s, old.address)
        up == load_node(r.s, parent.address)
        sib == load_node(r.s, child(up, i + 1))
        h == CAPACITY \div 2
    IN  /\ r.err = ""
        /\ r.node = up
        /\ now.node_type = old.node_type /\ sib.node_type = old.node_type
        /\ now.entries = SubSeq(old.entries, 1, h)
        /\ sib.entries = SubSeq(old.entries, CAPACITY - h + 1, CAPACITY)
        /\ At(up.entries, i) = At(old.entries, h)
        /\ up.entries = InsertAt(parent.entries, i, At(old.entries, h))
        /\ up.children = InsertAt(parent.children, i + 1, sib.address)
        /\ child(up, i) = old.address
        /\ sib.address \notin Nodes(s)
        /\ r.s.alloc.num_allocated_chunks = s.alloc.num_allocated_chunks + 1
        /\ now.entries \o <<At(up.entries, i)>> \o sib.entries = old.entries
        /\ now.children \o sib.children = old.children
        /\ old.node_type = "Internal" =>
               /\ Len(sib.children) = h + 1
               /\ sib.children = SubSeq(old.children, CAPACITY - h + 1, CAPACITY + 1)
               /\ Len(now.children) = h + 1
        /\ old.node_type = "Leaf" => now.children = <<>> /\ sib.children = <<>>
        /\ \A a \in Nodes(s) \ {old.address, parent.address} :
               load_node(r.s, a) = load_node(s, a)
        /\ r.s.length = s.length /\ r.s.root_addr = s.root_addr /\ r.s.hdr = s.hdr

\* C24: split_child(parent, i) on a full child leaves the child its first
\* CAPACITY/2 entries, gives the newly allocated sibling of the same type the
\* last CAPACITY/2, puts the median into the parent at i and the sibling's
\* address at child position i + 1, moves the upper CAPACITY/2 + 1 children
\* of an internal child to the sibling, and keeps every entry and child once.
C24_SplitChild ==
    /\ \A p \in Splittable(St) : SplitAsStated(St, load_node(St, p[1]), p[2])
    /\ (root_addr # NULL /\ is_full(load_node(St, root_addr))) =>
           SplitAsStated(new_root_over(St).s, new_root_over(St).node, 0)

\* A full internal root is split under the new root insert has put over it:
\* the sibling takes the upper children.
C24_Witness ==
    /\ root_addr # NULL
    /\ is_full(load_node(St, root_addr))
    /\ load_node(St, root_addr).node_type = "Internal"
    /\ LET r == split_child(new_root_over(St).s, new_root_over(St).node, 0)
       IN  /\ r.err = ""
           /\ children_len(load_node(r.s, child(r.node, 1))) = CAPACITY \div 2 + 1
           /\ child(r.node, 0) = root_addr

\* A full leaf under a parent that is not full is split.
C24_WitnessLeaf ==
    \E p \in Splittable(St) :
        LET parent == load_node(St, p[1])
        IN  /\ load_node(St, child(parent, p[2])).node_type = "Leaf"
            /\ split_child(St, parent, p[2]).err = ""

---------------------------------------------------------------------------
(* C25: the chunks an insert allocates.                                    *)

\* The chunks insert(k, _) allocates on s: one for the first root; for every
\* full node on the way to k that does not hold k, two if it is the root
\* (the new root and the sibling) and one otherwise.
RECURSIVE SplitsOnPath(_, _, _, _)
SplitsOnPath(s, path, k, i) ==
    IF i > Len(path) THEN 0
    ELSE LET node == load_node(s, path[i])
         IN  (IF is_full(node) /\ ~search(node, k).found
              THEN (IF i = 1 THEN 2 ELSE 1) ELSE 0)
             + SplitsOnPath(s, path, k, i + 1)

ExpectedAllocations(s, k) ==
    IF s.root_addr = NULL THEN 1 ELSE SplitsOnPath(s, PathTo(s, k), k, 1)

\* The sequence q is the end of the sequence p.
IsSuffix(q, p) ==
    /\ Len(q) <= Len(p)
    /\ q = SubSeq(p, Len(p) - Len(q) + 1, Len(p))

\* C25: an insert frees no chunk (every node of the tree stays in the tree,
\* and the free-list only loses chunks from its head), and it allocates
\* exactly one chunk on an empty map, one for each split of a node that is
\* not the root and two for a split of the root.
C25_InsertAllocations ==
    \A k \in CallKeys, v \in Vals :
        LET r == insert(St, k, v)
        IN  /\ r.err = ""
            /\ Nodes(St) \subseteq Nodes(r.s)
            /\ IsSuffix(FreeList(r.s), FreeList(St))
            /\ r.s.alloc.num_allocated_chunks =
                   St.alloc.num_allocated_chunks + ExpectedAllocations(St, k)
            /\ Cardinality(Nodes(r.s)) = r.s.alloc.num_allocated_chunks

\* The root is a full leaf in one chunk, and the insert of a new key makes
\* the chunks three.
C25_Witness ==
    /\ alloc.num_allocated_chunks = 1
    /\ is_full(load_node(St, root_addr))
    /\ \E k \in CallKeys :
           /\ insert(St, k, 1).ret = None
           /\ insert(St, k, 1).s.alloc.num_allocated_chunks = 3

\* An insert splits the root and a leaf under it: three chunks more.
C25_WitnessThree ==
    \E k \in CallKeys : ExpectedAllocations(St, k) = 3

---------------------------------------------------------------------------
(* C26: the assertion at the top of remove_helper.                         *)

CannotLoseEntry == "remove_helper: node cannot lose an entry without merging"

\* C26: no run has failed the assertion at the top of remove_helper, and in
\* every reachable state no remove, of a present key or of an absent one,
\* fails it: every node other than the root that remove_helper is entered
\* on has more than MIN_ENTRIES entries.
C26_RemoveHelperEntry ==
    /\ panic # CannotLoseEntry
    /\ \A k \in CallKeys : remove(St, k).err # CannotLoseEntry

\* A tree of three levels in which one remove replaces a key of the root by
\* its predecessor or successor, deleted from a subtree of two levels, and
\* another descends through a child of the root that holds MIN_ENTRIES
\* entries to a key in a leaf.
C26_Witness ==
    /\ Height(St) = 3
    /\ \E k \in CallKeys :
           /\ DepthOf(St, k) = 1
           /\ remove(St, k).err = ""
           /\ Height(remove(St, k).s) = 3
    /\ \E k \in CallKeys :
           /\ DepthOf(St, k) = 3
           /\ at_minimum(load_node(St, PathTo(St, k)[2]))
           /\ at_minimum(load_node(St, PathTo(St, k)[3]))
           /\ remove(St, k).err = ""
           /\ remove(St, k).ret = Some(1)

---------------------------------------------------------------------------
(* C27: the key is in an internal node (case 2).                           *)

\* The keys remove_helper may be entered with on the node that holds them,
\* that node being internal: it is the root, or it can lose an entry.
InternalHolderKeys(s) ==
    {k \in CallKeys :
        /\ DepthOf(s, k) > 0
        /\ Holder(s, k).node_type = "Internal"
        /\ \/ Holder(s, k).address = s.root_addr
           \/ can_remove_entry_without_merging(Holder(s, k))}

FreeSet(s) == {FreeList(s)[i] : i \in 1..Len(FreeList(s))}

\* Case 2.a or 2.b happened: the entry `e`, taken from the subtree of
\* `from`, stands in the place of k, and is gone from that subtree; the
\* subtree of `other` is as it was.
Replaced(s, t, n, idx, e, from, other) ==
    LET now == load_node(t, n.address)
    IN  /\ now.entries = ReplaceAt(n.entries, idx, e)
        /\ now.children = n.children
        /\ now.node_type = n.node_type
        /\ e[1] \in SubtreeKeys(s, from.address)
        /\ SubtreeKeys(t, from.address) = SubtreeKeys(s, from.address) \ {e[1]}
        /\ SubtreeKeys(t, other.address) = SubtreeKeys(s, other.address)
        /\ \A a \in SubtreeNodes(s, other.address) : load_node(t, a) = load_node(s, a)

\* Case 2.c happened: the right child is merged into the left one around k,
\* its chunk is freed, k is gone from the merged node, and the parent has
\* lost the entry and the child, or, left empty, has given the root to the
\* merged node and is freed.
MergedAround(s, t, n, idx, k, left, right) ==
    /\ at_minimum(left) /\ at_minimum(right)
    /\ right.address \notin Nodes(t)
    /\ right.address \in FreeSet(t)
    /\ left.address \in Nodes(t)
    /\ SubtreeKeys(t, left.address) =
           SubtreeKeys(s, left.address) \cup SubtreeKeys(s, right.address)
    /\ left.node_type = "Leaf" =>
           load_node(t, left.address).entries = left.entries \o right.entries
    /\ IF entries_len(n) = 1
       THEN /\ n.address = s.root_addr
            /\ t.root_addr = left.address
            /\ n.address \in FreeSet(t)
       ELSE /\ load_node(t, n.address).entries = RemoveAt(n.entries, idx)
            /\ load_node(t, n.address).children = RemoveAt(n.children, idx + 1)
            /\ t.root_addr = s.root_addr

\* What remove_helper does on the node that holds k, by the three cases.
Case2AsStated(s, k, chunks_kept) ==
    LET n == Holder(s, k)
        idx == search(n, k).idx
        left == load_node(s, child(n, idx))
        right == load_node(s, child(n, idx + 1))
        r == remove_helper(s, n, k)
    IN  /\ r.err = ""
        /\ r.ret = Some(value(n, idx))
        /\ k \notin SubtreeKeys(r.s, r.s.root_addr)
        /\ IF can_remove_entry_without_merging(left)
           THEN /\ Replaced(s, r.s, n, idx, get_max(s, left), left, right)
                /\ \A x \in SubtreeKeys(s, left.address) : x <= get_max(s, left)[1]
                /\ chunks_kept =>
                       r.s.alloc.num_allocated_chunks = s.alloc.num_allocated_chunks
           ELSE IF can_remove_entry_without_merging(right)
           THEN /\ Replaced(s, r.s, n, idx, get_min(s, right), right, left)
                /\ \A x \in SubtreeKeys(s, right.address) : x >= get_min(s, right)[1]
                /\ chunks_kept =>
                       r.s.alloc.num_allocated_chunks = s.alloc.num_allocated_chunks
           ELSE MergedAround(s, r.s, n, idx, k, left, right)

\* C27 as the spec words it: the three cases in this order, and cases 2.a
\* and 2.b leave num_allocated_chunks as it was.
C27_Original ==
    \A k \in InternalHolderKeys(St) : Case2AsStated(St, k, TRUE)

\* The children of the node that holds k are leaves.
ChildrenAreLeaves(s, k) ==
    load_node(s, child(Holder(s, k), 0)).node_type = "Leaf"

\* C27 (amended): when remove finds k at idx of an internal node it
\* replaces k by its predecessor, deleted from the left subtree, if the left
\* child has more than MIN_ENTRIES entries (2.a); otherwise by its successor,
\* deleted from the right subtree, if the right child has more (2.b);
\* otherwise both children hold MIN_ENTRIES and are merged around k into the
\* left child, the right child's chunk is freed, and k is deleted from the
\* merged node (2.c). Cases 2.a and 2.b leave num_allocated_chunks as it was
\* when the children are leaves; under internal children the deletion of the
\* predecessor or successor may merge nodes further down, and then the count
\* falls. It never rises.
C27_KeyInInternalNode ==
    \A k \in InternalHolderKeys(St) :
        /\ Case2AsStated(St, k, ChildrenAreLeaves(St, k))
        /\ remove_helper(St, Holder(St, k), k).s.alloc.num_allocated_chunks
               <= St.alloc.num_allocated_chunks

\* In one tree of two levels a key of the root is replaced by its
\* predecessor and another by its successor, with the chunks as many as
\* before; and the children of a third key are merged around it.
C27_Witness ==
    /\ Height(St) = 2
    /\ \E k \in InternalHolderKeys(St) :
           LET n == Holder(St, k)
               left == load_node(St, child(n, search(n, k).idx))
           IN  /\ can_remove_entry_without_merging(left)
               /\ key(load_node(remove(St, k).s, root_addr), search(n, k).idx)
                      = get_max(St, left)[1]
               /\ remove(St, k).s.alloc.num_allocated_chunks = alloc.num_allocated_chunks
    /\ \E k \in InternalHolderKeys(St) :
           LET n == Holder(St, k)
               left == load_node(St, child(n, search(n, k).idx))
               right == load_node(St, child(n, search(n, k).idx + 1))
           IN  /\ at_minimum(left) /\ can_remove_entry_without_merging(right)
               /\ key(load_node(remove(St, k).s, root_addr), search(n, k).idx)
                      = get_min(St, right)[1]
    /\ \E k \in InternalHolderKeys(St) :
           LET n == Holder(St, k)
               left == load_node(St, child(n, search(n, k).idx))
               right == load_node(St, child(n, search(n, k).idx + 1))
           IN  /\ at_minimum(left) /\ at_minimum(right)
               /\ right.address \in FreeSet(remove(St, k).s)

\* Case 2.b over internal children, where deleting the successor merges two
\* leaves: a chunk fewer.
C27_WitnessDeep ==
    \E k \in InternalHolderKeys(St) :
        /\ ~ChildrenAreLeaves(St, k)
        /\ ~at_minimum(load_node(St, child(Holder(St, k), search(Holder(St, k), k).idx + 1)))
        /\ remove(St, k).s.alloc.num_allocated_chunks < alloc.num_allocated_chunks
        /\ Height(remove(St, k).s) = Height(St)


---------------------------------------------------------------------------
(* C28: the child on the way down cannot lose an entry, a sibling can      *)
(* (case 3.a).                                                             *)

\* The places where remove_helper, on its way down, can meet a child with
\* MIN_ENTRIES entries: an internal node that is the root or can lose an
\* entry, and the index of such a child.
RotationSites(s) ==
    {site \in Nodes(s) \X (0..CAPACITY) :
        LET n == load_node(s, site[1])
        IN  /\ n.node_type = "Internal"
            /\ \/ n.address = s.root_addr
               \/ can_remove_entry_without_merging(n)
            /\ site[2] < children_len(n)
            /\ at_minimum(load_node(s, child(n, site[2])))}

\* The left sibling of child idx of n exists and can lose an entry.
LeftCanSpare(s, n, idx) ==
    /\ idx > 0
    /\ can_remove_entry_without_merging(load_node(s, child(n, idx - 1)))

\* The right sibling of child idx of n exists and can lose an entry.
RightCanSpare(s, n, idx) ==
    /\ idx + 1 < children_len(n)
    /\ can_remove_entry_without_merging(load_node(s, child(n, idx + 1)))

\* From s to t nothing has changed but the nodes at the three addresses,
\* and the map holds the same entries in a search tree of the same chunks.
RotationPreserves(s, t, touched) ==
    /\ Nodes(t) = Nodes(s)
    /\ \A a \in Nodes(s) \ touched : load_node(t, a) = load_node(s, a)
    /\ SubtreeKeys(t, t.root_addr) = SubtreeKeys(s, s.root_addr)
    /\ TotalEntries(t) = TotalEntries(s)
    /\ iter(t) = iter(s)
    /\ SearchTree(t)
    /\ t.alloc = s.alloc
    /\ t.root_addr = s.root_addr
    /\ t.length = s.length

\* The rotation from the left sibling, as stated.
RotatedFromLeft(s, n, idx) ==
    LET c == load_node(s, child(n, idx))
        l == load_node(s, child(n, idx - 1))
        r == rotate_from_left(s, n, idx, c, l)
        n2 == load_node(r.s, n.address)
        c2 == load_node(r.s, c.address)
        l2 == load_node(r.s, l.address)
    IN  /\ r.err = ""
        /\ r.node = c2
        /\ l2.entries = SubSeq(l.entries, 1, Len(l.entries) - 1)
        /\ n2.entries = ReplaceAt(n.entries, idx - 1, l.entries[Len(l.entries)])
        /\ n2.children = n.children
        /\ c2.entries = <<At(n.entries, idx - 1)>> \o c.entries
        /\ IF l.node_type = "Internal"
           THEN /\ l2.children = SubSeq(l.children, 1, Len(l.children) - 1)
                /\ c2.children = <<l.children[Len(l.children)]>> \o c.children
           ELSE l2.children = <<>> /\ c2.children = <<>>
        /\ <<n2.node_type, c2.node_type, l2.node_type>>
               = <<n.node_type, c.node_type, l.node_type>>
        /\ RotationPreserves(s, r.s, {n.address, c.address, l.address})

\* The rotation from the right sibling, as stated.
RotatedFromRight(s, n, idx) ==
    LET c == load_node(s, child(n, idx))
        rs == load_node(s, child(n, idx + 1))
        r == rotate_from_right(s, n, idx, c, rs)
        n2 == load_node(r.s, n.address)
        c2 == load_node(r.s, c.address)
        rs2 == load_node(r.s, rs.address)
    IN  /\ r.err = ""
        /\ r.node = c2
        /\ rs2.entries = SubSeq(rs.entries, 2, Len(rs.entries))
        /\ n2.entries = ReplaceAt(n.entries, idx, rs.entries[1])
        /\ n2.children = n.children
        /\ c2.entries = c.entries \o <<At(n.entries, idx)>>
        /\ IF rs.node_type = "Internal"
           THEN /\ rs2.children = SubSeq(rs.children, 2, Len(rs.children))
                /\ c2.children = c.children \o <<rs.children[1]>>
           ELSE rs2.children = <<>> /\ c2.children = <<>>
        /\ <<n2.node_type, c2.node_type, rs2.node_type>>
               = <<n.node_type, c.node_type, rs.node_type>>
        /\ RotationPreserves(s, r.s, {n.address, c.address, rs.address})

\* The keys that are not in n and lead from n to its child idx.
KeysInto(n, idx) ==
    {k \in CallKeys : ~search(n, k).found /\ search(n, k).idx = idx}

\* C28: in every reachable state, at every node remove_helper can be
\* entered on and every child of it that holds exactly MIN_ENTRIES entries:
\* if the left sibling can lose an entry, case 3 rotates from the left (the
\* sibling's last entry, and last child if internal, move: the entry to
\* position idx - 1 of the parent, the parent's old entry to the front of
\* the child, the moved child to the front of the child's children) and
\* goes on in the child; otherwise, if the right sibling can, it rotates
\* from the right (first entry to position idx of the parent, the parent's
\* old entry appended to the child, first child appended) and goes on.  The
\* rotation keeps the entries of the map, the search-tree order and the
\* allocator, num_allocated_chunks included.
C28_Rotation ==
    \A site \in RotationSites(St) :
        LET n == load_node(St, site[1])
            idx == site[2]
            c == load_node(St, child(n, idx))
        IN  IF LeftCanSpare(St, n, idx)
            THEN /\ RotatedFromLeft(St, n, idx)
                 /\ \A k \in KeysInto(n, idx) :
                        remove_case_3(St, n, k, idx) =
                            LET r == rotate_from_left(St, n, idx, c,
                                         load_node(St, child(n, idx - 1)))
                            IN  remove_helper(r.s, r.node, k)
            ELSE RightCanSpare(St, n, idx) =>
                 /\ RotatedFromRight(St, n, idx)
                 /\ \A k \in KeysInto(n, idx) :
                        remove_case_3(St, n, k, idx) =
                            LET r == rotate_from_right(St, n, idx, c,
                                         load_node(St, child(n, idx + 1)))
                            IN  remove_helper(r.s, r.node, k)

\* A child with MIN_ENTRIES entries between two siblings that can each
\* lose an entry, with a key to remove below it: the rotation is from the
\* left.
C28_Witness ==
    \E site \in RotationSites(St) :
        LET n == load_node(St, site[1])
        IN  /\ LeftCanSpare(St, n, site[2])
            /\ RightCanSpare(St, n, site[2])
            /\ \E k \in KeysInto(n, site[2]) :
                   /\ remove(St, k).err = ""
                   /\ remove(St, k).ret # None

\* A tree of three levels whose root has an internal child with
\* MIN_ENTRIES entries and a left sibling that can lose an entry, with a
\* key to remove below it: the rotation moves a child along with the entry.
C28_WitnessLeft ==
    /\ Height(St) = 3
    /\ \E site \in RotationSites(St) :
           LET n == load_node(St, site[1])
           IN  /\ n.address = St.root_addr
               /\ LeftCanSpare(St, n, site[2])
               /\ \E k \in KeysInto(n, site[2]) :
                      /\ DepthOf(St, k) = 3
                      /\ remove(St, k).err = ""
                      /\ remove(St, k).ret # None

\* A child with MIN_ENTRIES entries that has no left sibling able to lose
\* an entry and a right one that is, both internal: the rotation is from
\* the right and moves a child along with the entry.
C28_WitnessRight ==
    \E site \in RotationSites(St) :
        LET n == load_node(St, site[1])
        IN  /\ ~LeftCanSpare(St, n, site[2])
            /\ RightCanSpare(St, n, site[2])
            /\ load_node(St, child(n, site[2])).node_type = "Internal"
            /\ \E k \in KeysInto(n, site[2]) : remove(St, k).ret # None


---------------------------------------------------------------------------
(* C29: the child on the way down cannot lose an entry, and no sibling can *)
(* (case 3.b).                                                             *)

\* The merge of child idx of n with a sibling, as stated: `left` and
\* `right` are the two nodes in key order, `sep` the index of the parent
\* entry between them, `kept` the one of the two that stays.
MergedAsStated(s, n, idx, left, right, sep, kept) ==
    LET c == load_node(s, child(n, idx))
        r == merge_with_sibling(s, n, idx, c, kept, sep)
        t == r.s
        merged == load_node(t, kept.address)
        freed == FreeSet(t) \ FreeSet(s)
    IN  /\ r.err = ""
        /\ r.node = merged
        /\ merged.entries = left.entries \o <<At(n.entries, sep)>> \o right.entries
        /\ merged.children = left.children \o right.children
        /\ merged.node_type = c.node_type
        /\ \A i \in 1..(Len(merged.entries) - 1) :
               merged.entries[i][1] < merged.entries[i + 1][1]
        /\ c.address \in freed
        /\ c.address \notin Nodes(t)
        /\ SubtreeKeys(t, t.root_addr) = SubtreeKeys(s, s.root_addr)
        /\ iter(t) = iter(s)
        /\ SearchTree(t)
        /\ t.length = s.length
        /\ IF entries_len(n) = 1
           THEN /\ n.address = s.root_addr
                /\ t.root_addr = kept.address
                /\ freed = {c.address, n.address}
                /\ t.alloc.num_allocated_chunks = s.alloc.num_allocated_chunks - 2
                /\ Nodes(t) = Nodes(s) \ {c.address, n.address}
                /\ Len(t.header_writes) = 1
                /\ t.header_writes[1].root_addr = kept.address
                /\ t.header_writes[1].unwritten = {}
                /\ read_header(t).root_addr = kept.address
                /\ Height(t) = Height(s) - 1
           ELSE /\ t.root_addr = s.root_addr
                /\ freed = {c.address}
                /\ t.alloc.num_allocated_chunks = s.alloc.num_allocated_chunks - 1
                /\ Nodes(t) = Nodes(s) \ {c.address}
                /\ load_node(t, n.address).entries = RemoveAt(n.entries, sep)
                /\ load_node(t, n.address).children = RemoveAt(n.children, idx)
                /\ t.header_writes = <<>>
                /\ Height(t) = Height(s)

\* C29: in every reachable state, at every node remove_helper can be
\* entered on and every child of it that holds exactly MIN_ENTRIES entries
\* and has no sibling able to lose an entry: case 3 merges the child into
\* its left sibling if there is one, otherwise into its right sibling,
\* around the parent entry between them, in key order, and goes on in the
\* merged node; the merge frees the child's chunk and no other, unless the
\* parent is left empty: then the parent is the root, its chunk is freed as
\* well, the merged node is the root in the map and in the header written,
\* and the tree is one level lower.
C29_Merge ==
    \A site \in RotationSites(St) :
        LET n == load_node(St, site[1])
            idx == site[2]
            c == load_node(St, child(n, idx))
        IN  (~LeftCanSpare(St, n, idx) /\ ~RightCanSpare(St, n, idx)) =>
                IF idx > 0
                THEN LET l == load_node(St, child(n, idx - 1))
                     IN  /\ MergedAsStated(St, n, idx, l, c, idx - 1, l)
                         /\ \A k \in KeysInto(n, idx) :
                                remove_case_3(St, n, k, idx) =
                                    LET r == merge_with_sibling(St, n, idx, c, l, idx - 1)
                                    IN  remove_helper(r.s, r.node, k)
                ELSE LET rs == load_node(St, child(n, idx + 1))
                     IN  /\ MergedAsStated(St, n, idx, c, rs, idx, rs)
                         /\ \A k \in KeysInto(n, idx) :
                                remove_case_3(St, n, k, idx) =
                                    LET r == merge_with_sibling(St, n, idx, c, rs, idx)
                                    IN  remove_helper(r.s, r.node, k)

\* A tree of three levels whose root has one entry and two children with
\* MIN_ENTRIES entries each, with a key to remove below the right child:
\* the child is merged into its left sibling, the root is left empty and
\* the merged node takes its place.
C29_Witness ==
    /\ Height(St) = 3
    /\ entries_len(load_node(St, St.root_addr)) = 1
    /\ <<St.root_addr, 1>> \in RotationSites(St)
    /\ ~LeftCanSpare(St, load_node(St, St.root_addr), 1)
    /\ \E k \in KeysInto(load_node(St, St.root_addr), 1) :
           /\ remove(St, k).ret # None
           /\ Height(remove(St, k).s) = 2

\* A child with MIN_ENTRIES entries, a sibling on each side and neither able
\* to lose an entry, under a parent that keeps an entry: the merge is into
\* the left sibling and frees one chunk.
C29_WitnessBoth ==
    \E site \in RotationSites(St) :
        LET n == load_node(St, site[1])
        IN  /\ site[2] > 0 /\ site[2] + 1 < children_len(n)
            /\ ~LeftCanSpare(St, n, site[2]) /\ ~RightCanSpare(St, n, site[2])
            /\ \E k \in KeysInto(n, site[2]) : remove(St, k).ret # None

\* A first child with MIN_ENTRIES entries whose right sibling cannot lose an
\* entry: the merge is into the right sibling.
C29_WitnessRight ==
    \E site \in RotationSites(St) :
        LET n == load_node(St, site[1])
        IN  /\ site[2] = 0
            /\ ~RightCanSpare(St, n, 0)
            /\ load_node(St, child(n, 0)).node_type = "Internal"
            /\ \E k \in KeysInto(n, 0) : remove(St, k).ret # None


---------------------------------------------------------------------------
(* C30: the assertions of insert_nonfull and split_child.                  *)

\* What a failed assertion of the insertion leaves as the error: of
\* insert_nonfull on entry, of insert_nonfull on the child it goes on in,
\* and the two of split_child.
InsertAssertions ==
    {"insert_nonfull: node is full", "insert_nonfull: child is full",
     "split_child: node is full", "split_child: child is not full"}

\* C30: no run has failed an assertion of the insertion, and in every
\* reachable state no insert, of a present key or of an absent one, fails
\* one: insert_nonfull is entered on nodes that are not full only, the
\* child it goes on in after a split_child and a second search is not
\* full, and split_child gets a parent that is not full and a child that
\* is.
C30_InsertAssertions ==
    /\ panic \notin InsertAssertions
    /\ \A k \in CallKeys : \A v \in Vals :
           insert(St, k, v).err \notin InsertAssertions

\* A tree of two levels with a full root and a full leaf, and an absent key
\* that belongs in that leaf: the insert splits the root, enters
\* insert_nonfull on the new root and on the nodes below it, and splits the
\* leaf from inside insert_nonfull; the tree has three levels afterwards.
C30_Witness ==
    /\ Height(St) = 2
    /\ is_full(load_node(St, St.root_addr))
    /\ \E k \in CallKeys :
           /\ DepthOf(St, k) = 0
           /\ is_full(load_node(St, PathTo(St, k)[2]))
           /\ insert(St, k, 1).err = ""
           /\ Height(insert(St, k, 1).s) = 3
           /\ insert(St, k, 1).s.alloc.num_allocated_chunks
                  = St.alloc.num_allocated_chunks + 3


---------------------------------------------------------------------------
(* C31: the allocator takes from the free-list before it carves.           *)

\* The allocator calls of a log, from the i-th on, are those of an
\* allocator whose free chunks are `stack`, the most recently freed first:
\* each call finds that very free-list in memory; an allocation takes the
\* first chunk of the stack, or, the stack being empty, the chunk after the
\* last one carved, and the chunk it returns holds no node of the tree and
\* none being built; a deallocation puts its chunk first.  `last` is the
\* free-list the operation leaves.
RECURSIVE LifoFrom(_, _, _, _)
LifoFrom(log, i, stack, last) ==
    IF i > Len(log) THEN last = stack
    ELSE LET e == log[i]
         IN  /\ FreeList(e.before) = stack
             /\ IF e.op = "allocate"
                THEN /\ e.address \notin Nodes(e.before) \cup e.before.unwritten
                     /\ IF stack # <<>>
                        THEN /\ e.address = Head(stack)
                             /\ e.address <= e.before.alloc.bump_cursor
                             /\ LifoFrom(log, i + 1, Tail(stack), last)
                        ELSE /\ e.address = e.before.alloc.bump_cursor + 1
                             /\ e.before.alloc.num_allocated_chunks
                                    = e.before.alloc.bump_cursor
                             /\ LifoFrom(log, i + 1, stack, last)
                ELSE LifoFrom(log, i + 1, <<e.address>> \o stack, last)

\* The operation that ended in r was served by the allocator as stated.
AllocatedAsStated(s, r) ==
    /\ LifoFrom(r.s.alloc_log, 1, FreeList(s), FreeList(r.s))
    /\ r.s.alloc.peak = r.s.alloc.bump_cursor

Allocations(log) == SelectSeq(log, LAMBDA e : e.op = "allocate")

C31_WitnessFreed ==
    /\ Len(FreeList(St)) = 1
    /\ \E k \in CallKeys :
           LET r == remove(St, k)
           IN  /\ r.err = ""
               /\ Len(r.s.alloc_log) = 2
               /\ FreeList(r.s) = <<r.s.alloc_log[2].address,
                                      r.s.alloc_log[1].address>> \o FreeList(St)


---------------------------------------------------------------------------
(* C32: the leaves are at one depth.                                       *)

\* The depths of the leaves below the node at `a`, itself at depth d.
RECURSIVE LeafDepthsFrom(_, _, _)
LeafDepthsFrom(s, a, d) ==
    LET node == load_node(s, a)
    IN  IF node.node_type = "Leaf" THEN {d}
        ELSE UNION {LeafDepthsFrom(s, node.children[i], d + 1) :
                        i \in 1..Len(node.children)}

LeafDepths(s) == IF s.root_addr = NULL THEN {} ELSE LeafDepthsFrom(s, s.root_addr, 1)

\* All leaves are at the same depth, which is the height of the tree.
Balanced(s) == s.root_addr # NULL => LeafDepths(s) = {Height(s)}

\* insert(k, _) takes the branch that splits a full root.
SplitsRoot(s, k) ==
    /\ s.root_addr # NULL
    /\ is_full(load_node(s, s.root_addr))
    /\ ~search(load_node(s, s.root_addr), k).found

\* A remove merges the two children of a root that has one entry: the key
\* is in the root and neither child can lose an entry (case 2.c), or it is
\* not and neither the child on the way nor its sibling can (case 3.b).
EmptiesRoot(s) ==
    /\ s.root_addr # NULL
    /\ LET root == load_node(s, s.root_addr)
       IN  /\ root.node_type = "Internal"
           /\ entries_len(root) = 1
           /\ at_minimum(load_node(s, child(root, 0)))
           /\ at_minimum(load_node(s, child(root, 1)))

\* The chunks deallocated in the operation that ended in r.
Deallocated(r) ==
    {r.s.alloc_log[i].address :
        i \in {j \in 1..Len(r.s.alloc_log) : r.s.alloc_log[j].op = "deallocate"}}

\* C32: in every reachable state, and after one more insert or remove, all
\* leaves of the tree are at the same depth.  An insert into a tree makes
\* it one level higher when it splits a full root and leaves its height as
\* it is otherwise; a remove that leaves a tree makes it one level lower
\* when a merge empties the root, which is then deallocated, and leaves its
\* height as it is otherwise.
C32_LeavesAtOneDepth ==
    /\ Balanced(St)
    /\ \A k \in CallKeys :
           /\ \A v \in Vals :
                  LET r == insert(St, k, v)
                  IN  /\ r.err = ""
                      /\ Balanced(r.s)
                      /\ St.root_addr # NULL =>
                             Height(r.s) = IF SplitsRoot(St, k) THEN Height(St) + 1
                                           ELSE Height(St)
           /\ LET r == remove(St, k)
              IN  /\ r.err = ""
                  /\ Balanced(r.s)
                  /\ r.s.root_addr # NULL =>
                         /\ Height(r.s) = IF EmptiesRoot(St) THEN Height(St) - 1
                                          ELSE Height(St)
                         /\ EmptiesRoot(St) <=> St.root_addr \in Deallocated(r)

\* A tree of three levels whose root has one entry and two children that
\* cannot lose an entry: a remove makes it a tree of two levels, and an
\* insert into that tree, whose root is then full, makes it one of three
\* levels again.
C32_Witness ==
    /\ Height(St) = 3
    /\ EmptiesRoot(St)
    /\ \E k \in CallKeys :
           LET r == remove(St, k)
           IN  /\ Height(r.s) = 2
               /\ \E j \in CallKeys :
                      /\ SplitsRoot(r.s, j)
                      /\ Height(insert(r.s, j, 1).s) = 3
                      /\ Balanced(insert(r.s, j, 1).s)


---------------------------------------------------------------------------
(* C33: a deallocated chunk is left alone.                                 *)

\* No chunk of the free-list of s holds a node.
FreeChunksBlank(s) == \A a \in FreeSet(s) : s.mem[a].node = Blank

\* C33: in every reachable state no chunk of the free-list holds a node,
\* and in no remove is a node saved to a chunk that the remove has
\* deallocated: the old root of a root collapse and the source of a merge
\* are not written after they are freed.
C33_FreedChunkLeftAlone ==
    /\ FreeChunksBlank(St)
    /\ \A k \in CallKeys :
           LET r == remove(St, k)
           IN  /\ r.s.stale_saves = {}
               /\ FreeChunksBlank(r.s)

\* remove(k) takes case 2.c on a root with one entry: k is the entry of the
\* root and neither child can lose an entry.
Case2cOnRoot(s, k) ==
    /\ EmptiesRoot(s)
    /\ search(load_node(s, s.root_addr), k).found

\* What the removes do: a node is saved to a deallocated chunk in case 2.c
\* on a root with one entry and nowhere else, the chunk is that of the old
\* root, and the node saved to it is the root without its entry, over the
\* merged child; its free-list link is as deallocate wrote it.
C33_StaleSaveOfOldRoot ==
    \A k \in CallKeys :
        LET r == remove(St, k)
        IN  /\ r.err = ""
            /\ r.s.stale_saves = IF Case2cOnRoot(St, k) THEN {St.root_addr} ELSE {}
            /\ Case2cOnRoot(St, k) =>
                   /\ St.root_addr \in FreeSet(r.s)
                   /\ r.s.mem[St.root_addr].node.entries = <<>>
                   /\ r.s.mem[St.root_addr].node.children
                          = <<child(load_node(St, St.root_addr), 0)>>
                   /\ St.root_addr \notin Nodes(r.s)

\* A tree of three levels loses the only entry of its root to case 2.c: the
\* old root is deallocated and then saved.
C33_Witness ==
    /\ Height(St) = 3
    /\ \E k \in CallKeys :
           /\ Case2cOnRoot(St, k)
           /\ remove(St, k).ret # None
           /\ remove(St, k).s.stale_saves = {St.root_addr}


---------------------------------------------------------------------------
(* C34: what is persisted is the map.                                      *)

\* The header in memory names the root and the length of the map s, every
\* node of the tree has been written, and the map loaded from the memory is
\* s, with the entries of the reference map m and no others.
PersistedAgrees(s, m) ==
    LET o == load(s)
    IN  /\ SubSeq(s.hdr, 13, 20) = address_get(s.root_addr)
        /\ SubSeq(s.hdr, 21, 28) = to_le_bytes(s.length, 8)
        /\ Nodes(s) \cap s.unwritten = {}
        /\ o.err = ""
        /\ o.s.root_addr = s.root_addr
        /\ o.s.length = s.length
        /\ iter(o.s) = RefEntries(m)
        /\ Len(RefEntries(m)) = o.s.length
        /\ TotalEntries(o.s) = o.s.length

\* remove(k) of an absent key that writes to memory on its way down.
RebalancesForAbsent(s, k) ==
    /\ get(s, k) = None
    /\ remove(s, k).s.mem # s.mem

\* C34: in every reachable state (each is left by a completed new, init,
\* load, insert, remove or clear), and after one more insert, remove or
\* clear, the header bytes 12..28 are the root address and the length of the
\* map, and the nodes reachable from that root, as stored in memory, are
\* the map: loaded again it has the same root and length and exactly the
\* entries of the reference map.
\* This includes the removes that return None after rebalancing.
C34_PersistedAgrees ==
    /\ PersistedAgrees(St, model)
    /\ PersistedAgrees(clear(St).s, [k \in AllKeys |-> None])
    /\ \A k \in CallKeys :
           /\ \A v \in Vals :
                  PersistedAgrees(insert(St, k, v).s, [model EXCEPT ![k] = Some(v)])
           /\ PersistedAgrees(remove(St, k).s, [model EXCEPT ![k] = None])
           /\ RebalancesForAbsent(St, k) => remove(St, k).ret = None

\* A tree of three levels and an absent key whose remove returns None after
\* it has merged the children of the root and made the merged node the
\* root: the header and the nodes it wrote are in memory.
C34_Witness ==
    /\ Height(St) = 3
    /\ \E k \in CallKeys :
           /\ RebalancesForAbsent(St, k)
           /\ remove(St, k).ret = None
           /\ remove(St, k).s.root_addr # St.root_addr
           /\ remove(St, k).s.hdr # St.hdr


---------------------------------------------------------------------------
(* C35: an overwrite below a full root splits the root.                    *)

\* The invariants of the tree of s and of its allocator (C9 to C14, C32).
StructuralInvariants(s) ==
    /\ SearchTree(s)
    /\ \A a \in Nodes(s) : Occupied(s, a) /\ ChildrenMatch(s, a)
    /\ Balanced(s)
    /\ EmptyAgrees(s)
    /\ ChunksOwnedOnce(s)
    /\ TotalEntries(s) = s.length
    /\ s.alloc.num_allocated_chunks = Cardinality(Nodes(s))

\* The keys of the map that are not in its root, the root being full.
KeysBelowFullRoot(s) ==
    {k \in CallKeys :
        /\ DepthOf(s, k) > 1
        /\ is_full(load_node(s, s.root_addr))}

\* The entries of a sequence, with value v for the key k.
WithValue(entries, k, v) ==
    [i \in 1..Len(entries) |->
        IF entries[i][1] = k THEN <<k, v>> ELSE entries[i]]

\* C35: in every reachable state, for every key k of the map that is not in
\* the root, the root being full, and every value v: insert(k, v) first
\* allocates a new internal root, which becomes the root, and then a
\* sibling for the old root, which it splits, so that the tree is one level
\* higher and holds at least two chunks more; it returns the previous
\* value of k; len() and the keys are as before and iter() differs in the
\* value of k only; the invariants of the tree and the allocator hold.
C35_OverwriteBelowFullRoot ==
    \A k \in KeysBelowFullRoot(St) : \A v \in Vals :
        LET r == insert(St, k, v)
            a == Allocations(r.s.alloc_log)
            new_root == load_node(r.s, r.s.root_addr)
        IN  /\ r.err = ""
            /\ r.ret = get(St, k)
            /\ r.ret # None
            /\ Len(a) >= 2
            /\ r.s.root_addr = a[1].address
            /\ r.s.root_addr # St.root_addr
            /\ new_root.node_type = "Internal"
            /\ new_root.children = <<St.root_addr, a[2].address>>
            /\ new_root.entries = <<split_median(load_node(St, St.root_addr))>>
            /\ Height(r.s) = Height(St) + 1
            /\ r.s.alloc.num_allocated_chunks
                   = St.alloc.num_allocated_chunks + Len(a)
            /\ Deallocated(r) = {}
            /\ len(r.s) = len(St)
            /\ iter(r.s) = WithValue(iter(St), k, v)
            /\ get(r.s, k) = Some(v)
            /\ StructuralInvariants(r.s)

\* A tree of two levels with a full root and a key in one of its leaves,
\* stored with value 1: insert(k, 2) returns Some(1) and leaves a tree of
\* three levels with two chunks more and the same keys.
C35_Witness ==
    /\ Height(St) = 2
    /\ \E k \in KeysBelowFullRoot(St) :
           LET r == insert(St, k, 2)
           IN  /\ get(St, k) = Some(1)
               /\ r.ret = Some(1)
               /\ Height(r.s) = 3
               /\ r.s.alloc.num_allocated_chunks = St.alloc.num_allocated_chunks + 2
               /\ len(r.s) = len(St)


---------------------------------------------------------------------------
(* C36: the removal of an absent key.                                      *)

\* The keys the map does not hold.
AbsentKeys(s) == {k \in CallKeys : get(s, k) = None}

\* C36: in every reachable state, for every key k the map does not hold,
\* remove(k) returns None and leaves len() and iter() as they were, though
\* it may have rotated entries, merged nodes, deallocated chunks or replaced
\* the root on its way down; afterwards the invariants of the tree hold and
\* num_allocated_chunks is the number of nodes of the tree.
C36_RemoveAbsent ==
    \A k \in AbsentKeys(St) :
        LET r == remove(St, k)
        IN  /\ r.err = ""
            /\ r.ret = None
            /\ len(r.s) = len(St)
            /\ iter(r.s) = iter(St)
            /\ iter(r.s) = RefEntries(model)
            /\ StructuralInvariants(r.s)
            /\ r.s.alloc.num_allocated_chunks = Cardinality(Nodes(r.s))

\* A tree of three levels and a key it does not hold whose remove merges
\* the children of the root, deallocates two chunks or more and leaves a
\* tree of two levels with the same entries.
C36_Witness ==
    /\ Height(St) = 3
    /\ \E k \in AbsentKeys(St) :
           LET r == remove(St, k)
           IN  /\ r.ret = None
               /\ Height(r.s) = 2
               /\ Cardinality(Deallocated(r)) >= 2
               /\ iter(r.s) = iter(St)

\* A key the map does not hold whose remove rotates an entry from a sibling
\* into the child on its way and deallocates nothing.
C36_WitnessRotation ==
    \E site \in RotationSites(St) :
        LET n == load_node(St, site[1])
        IN  /\ n.address = St.root_addr
            /\ LeftCanSpare(St, n, site[2]) \/ RightCanSpare(St, n, site[2])
            /\ \E k \in KeysInto(n, site[2]) \cap AbsentKeys(St) :
                   /\ remove(St, k).ret = None
                   /\ remove(St, k).s.mem # St.mem
                   /\ Deallocated(remove(St, k)) = {}


---------------------------------------------------------------------------
(* C37: the operations that only read.                                     *)

\* The call that ended in r has not failed and has left the state s.
Leaves(r, s) ==
    /\ r.err = ""
    /\ r.s = s
    /\ r.s.header_writes = <<>> /\ r.s.alloc_log = <<>>

---------------------------------------------------------------------------
(* C38: all that iter_upper_bound yields.                                  *)

\* The entries of the reference map from the key k on.
FromKey(k) == SelectSeq(RefEntries(model), LAMBDA e : e[1] >= k)

\* C38: in every reachable state, for every bound k with a key of the map
\* below it, iter_upper_bound(k) drained to the end yields the entry with
\* the greatest key below k and then every entry with a key >= k, in
\* ascending order, each once: whether the first entry is in the leaf the
\* descent ends in or in a node above it, and whether or not k is a key.
C38_UpperBoundSequence ==
    \A k \in BoundKeys :
        GreatestBelow(k) # None =>
            LET r == iter_upper_bound(St, k)
            IN  /\ r.err = ""
                /\ r.items = GreatestBelow(k) \o FromKey(k)
                /\ \A i \in 1..(Len(r.items) - 1) : r.items[i][1] < r.items[i + 1][1]

\* The nodes iter_upper_bound goes through for the bound k, down to a leaf.
RECURSIVE PathFromBound(_, _, _)
PathFromBound(s, a, k) ==
    LET node == load_node(s, a)
    IN  IF node.node_type = "Leaf" THEN <<a>>
        ELSE <<a>> \o PathFromBound(s, child(node, search(node, k).idx), k)

\* The leaf the descent for the bound k ends in has no key below k.
Unwinds(s, k) ==
    LET path == PathFromBound(s, s.root_addr, k)
    IN  search(load_node(s, path[Len(path)]), k).idx = 0

\* A tree of three levels with a key whose predecessor is in the root, found
\* after the cursors of the leaf's parent were dropped, and a bound that is
\* not a key whose predecessor is in the leaf; each yields the predecessor
\* and two entries or more after it, from several nodes.
C38_Witness ==
    /\ Height(St) = 3
    /\ \E k \in DeepKeys :
           /\ model[k] # None
           /\ Unwinds(St, k)
           /\ GreatestBelow(k) # None
           /\ DepthOf(St, GreatestBelow(k)[1][1]) = 1
           /\ Len(iter_upper_bound(St, k).items) >= 3
    /\ \E k \in DeepKeys :
           /\ model[k] = None
           /\ ~Unwinds(St, k)
           /\ GreatestBelow(k) # None
           /\ DepthOf(St, GreatestBelow(k)[1][1]) = 3
           /\ Len(iter_upper_bound(St, k).items) >= 3

====
